---------------------------- MODULE Spec2Model ----------------------------
(***************************************************************************)
(* A model of the tsrkit-types codec (src/tsrkit_types): the varint and    *)
(* fixed-width integer codecs, Option, Dictionary, the record decorator    *)
(* and the bit packer, the byte strings and their decode cache.            *)
(*                                                                         *)
(* Python integers are unbounded, TLC's are 32 bits wide.  A Python int is *)
(* therefore a record [neg, mag] whose magnitude is a sequence of binary   *)
(* digits, least significant first, without leading zeros (<<>> is 0).     *)
(* Octets, offsets, lengths and sizes are small and stay TLC integers.     *)
(* A Python object is a record with a field k naming its kind; a call's    *)
(* outcome is a record with a field ok, FALSE when the call raised.        *)
(***************************************************************************)
EXTENDS Integers, Sequences, FiniteSets, TLC

VARIABLES
    pc,      \* the step the scenario is at
    cls,     \* the type the call is made on (Int[...], Option[T], Dictionary[K,V], ...)
    self,    \* the value or object the call is made on
    args,    \* the arguments of the last call (or what the scenario's input was built from)
    buffer,  \* the octets handed to decode_from / produced by encode
    result,  \* what the last call returned or raised
    BYTES_DECODE_CACHE  \* bytes.py: the module's _BYTES_DECODE_CACHE

vars == <<pc, cls, self, args, buffer, result, BYTES_DECODE_CACHE>>

None == [k |-> "None"]

(***************************************************************************)
(* Bounds of the model.                                                    *)
(***************************************************************************)
\* integer inputs are 2^e - d .. 2^e + d for every exponent e of the range
Delta == 1

\* a mutated Dictionary holds at most MaxEntries entries
MaxEntries == 2
\* update and |= are offered mappings of at most MaxOther items
MaxOther == 2

\* a mapping on the wire declares at most MaxWire entries and carries at most MaxWire
MaxWire == 2

\* a record is written at the offsets 0..MaxOffset of the buffer
MaxOffset == 2

\* every bit vector of at most MaxBits bits is encoded
MaxBits == 9
\* the octets of a short payload after a length prefix
MaxPayload == 3

\* a process calls Bytes.decode_from at most MaxCalls times
MaxCalls == 2
\* the most octets of a buffer that no encoder wrote
MaxForeign == 3
\* append, insert and extend are called on bit vectors of at most MaxGrown bits
MaxGrown == 3

(***************************************************************************)
(* constants.py                                                            *)
(***************************************************************************)
MAX_DICTIONARY_SIZE == 1000000
MAX_STRING_BYTES == 10000000
MAX_BYTEARRAY_SIZE == 100000000
MAX_BITS_LENGTH == 80000000

(***************************************************************************)
(* Unbounded naturals as binary digit sequences.                           *)
(***************************************************************************)
Max(a, b) == IF a >= b THEN a ELSE b
Min(a, b) == IF a <= b THEN a ELSE b

\* without the leading zero digits
Norm(s) ==
    SubSeq(s, 1, CHOOSE n \in 0..Len(s) :
                    /\ n = 0 \/ s[n] # 0
                    /\ \A j \in (n + 1)..Len(s) : s[j] = 0)

Digit(a, i) == IF i >= 1 /\ i <= Len(a) THEN a[i] ELSE 0

RECURSIVE NatFromInt(_)
NatFromInt(n) == IF n = 0 THEN <<>> ELSE <<n % 2>> \o NatFromInt(n \div 2)

RECURSIVE NatToInt(_)
NatToInt(a) == IF a = <<>> THEN 0 ELSE a[1] + 2 * NatToInt(Tail(a))

Pow2(e) == [i \in 1..(e + 1) |-> IF i = e + 1 THEN 1 ELSE 0]

NatLT(a, b) ==
    IF Len(a) # Len(b) THEN Len(a) < Len(b)
    ELSE \E i \in 1..Len(a) :
            /\ a[i] < b[i]
            /\ \A j \in (i + 1)..Len(a) : a[j] = b[j]

NatLE(a, b) == a = b \/ NatLT(a, b)

\* a + b: the carry into digit i comes from a lower digit that generates it, through
\* digits that all pass it on
NatAdd(a, b) ==
    LET n == Max(Len(a), Len(b)) + 1
        carry(i) ==
            IF \E j \in 1..(i - 1) :
                  /\ Digit(a, j) + Digit(b, j) = 2
                  /\ \A k \in (j + 1)..(i - 1) : Digit(a, k) + Digit(b, k) >= 1
            THEN 1 ELSE 0
    IN  Norm([i \in 1..n |-> (Digit(a, i) + Digit(b, i) + carry(i)) % 2])

\* a - b for a >= b, with the borrow from digit i likewise
NatSub(a, b) ==
    LET borrow(i) ==
            IF \E j \in 1..(i - 1) :
                  /\ Digit(a, j) < Digit(b, j)
                  /\ \A k \in (j + 1)..(i - 1) : Digit(a, k) <= Digit(b, k)
            THEN 1 ELSE 0
    IN  Norm([i \in 1..Len(a) |-> (Digit(a, i) - Digit(b, i) - borrow(i) + 2) % 2])

\* a * b: a[1] * b + 2 * (a[2..] * b)
RECURSIVE NatMul(_, _)
NatMul(a, b) ==
    IF a = <<>> \/ b = <<>> THEN <<>>
    ELSE NatAdd(IF a[1] = 1 THEN b ELSE <<>>, Norm(<<0>> \o NatMul(Tail(a), b)))

\* the quotient and the remainder of a by b > 0, a digit of a at a time from the top
RECURSIVE NatDivMod(_, _)
NatDivMod(a, b) ==
    IF a = <<>> THEN [q |-> <<>>, r |-> <<>>]
    ELSE LET top == NatDivMod(Tail(a), b)
             r == Norm(<<a[1]>> \o top.r)
         IN  IF NatLE(b, r) THEN [q |-> <<1>> \o top.q, r |-> NatSub(r, b)]
             ELSE [q |-> Norm(<<0>> \o top.q), r |-> r]

\* a >> e
NatShr(a, e) == IF e >= Len(a) THEN <<>> ELSE SubSeq(a, e + 1, Len(a))

(***************************************************************************)
(* Python ints: sign and magnitude.                                        *)
(***************************************************************************)
PyInt(neg, mag) == [neg |-> neg /\ mag # <<>>, mag |-> mag]
PyNat(mag) == PyInt(FALSE, mag)
PyNeg(x) == PyInt(~x.neg, x.mag)

PyLT(x, y) ==
    IF x.neg /\ ~y.neg THEN TRUE
    ELSE IF ~x.neg /\ y.neg THEN FALSE
    ELSE IF x.neg THEN NatLT(y.mag, x.mag)
    ELSE NatLT(x.mag, y.mag)

PyLE(x, y) == x = y \/ PyLT(x, y)

PyAdd(x, y) ==
    IF x.neg = y.neg THEN PyInt(x.neg, NatAdd(x.mag, y.mag))
    ELSE IF NatLE(y.mag, x.mag) THEN PyInt(x.neg, NatSub(x.mag, y.mag))
    ELSE PyInt(y.neg, NatSub(y.mag, x.mag))

PySub(x, y) == PyAdd(x, PyNeg(y))

PyMul(x, y) == PyInt(x.neg # y.neg, NatMul(x.mag, y.mag))

\* x // y for y # 0: the quotient rounded towards minus infinity
PyFloorDiv(x, y) ==
    LET d == NatDivMod(x.mag, y.mag)
    IN  IF x.neg = y.neg THEN PyNat(d.q)
        ELSE IF d.r = <<>> THEN PyInt(TRUE, d.q)
        ELSE PyInt(TRUE, NatAdd(d.q, Pow2(0)))

\* x & y, x | y, x ^ y: digit by digit on the two's complement of unbounded width, in
\* which -m is the complement of m - 1 and the sign is the digit of every higher place
PyBitwise(op, x, y) ==
    LET n == Max(Len(x.mag), Len(y.mag))
        twos(z, i) == IF z.neg THEN 1 - Digit(NatSub(z.mag, Pow2(0)), i) ELSE Digit(z.mag, i)
        bit(c, d) == CASE op = "&" -> IF c = 1 /\ d = 1 THEN 1 ELSE 0
                       [] op = "|" -> IF c = 1 \/ d = 1 THEN 1 ELSE 0
                       [] op = "^" -> IF c # d THEN 1 ELSE 0
        neg == bit(IF x.neg THEN 1 ELSE 0, IF y.neg THEN 1 ELSE 0) = 1
        digits == [i \in 1..n |-> bit(twos(x, i), twos(y, i))]
    IN  IF neg THEN PyInt(TRUE, NatAdd(Norm([i \in 1..n |-> 1 - digits[i]]), Pow2(0)))
        ELSE PyNat(Norm(digits))

(***************************************************************************)
(* Octet sequences: int.to_bytes, int.from_bytes, slices of a buffer.      *)
(***************************************************************************)
\* a.to_bytes(n, "little"), for a < 2^(8n)
ToBytesLE(a, n) ==
    LET d(j) == Digit(a, j)
    IN  [i \in 1..n |->
            d(8 * i - 7) + 2 * d(8 * i - 6) + 4 * d(8 * i - 5) + 8 * d(8 * i - 4)
            + 16 * d(8 * i - 3) + 32 * d(8 * i - 2) + 64 * d(8 * i - 1) + 128 * d(8 * i)]

\* the binary digits of the octets of b, low octet and low digit first
RECURSIVE FromBytesRaw(_)
FromBytesRaw(b) ==
    IF b = <<>> THEN <<>>
    ELSE [j \in 1..8 |-> (b[1] \div (2 ^ (j - 1))) % 2] \o FromBytesRaw(Tail(b))

\* int.from_bytes(b, "little"); the empty slice gives 0
FromBytesLE(b) == Norm(FromBytesRaw(b))

\* buffer[lo:hi] with 0 <= lo: Python clamps both ends to the length
Slice(buf, lo, hi) ==
    LET a == Min(lo, Len(buf))
        b == Max(a, Min(hi, Len(buf)))
    IN  SubSeq(buf, a + 1, b)

\* data inserted at lo, nothing replaced
SliceAssign_Insert(buf, lo, hi, data) ==
    SubSeq(buf, 1, Min(lo, Len(buf))) \o data \o SubSeq(buf, Min(lo, Len(buf)) + 1, Len(buf))

\* buffer[lo:hi] = data on a bytearray: the slice is replaced, the length follows
SliceAssign(buf, lo, hi, data) ==
    LET a == Min(lo, Len(buf))
        b == Max(a, Min(hi, Len(buf)))
    IN  SubSeq(buf, 1, a) \o data \o SubSeq(buf, b + 1, Len(buf))

\* bytearray(n)
Zeros(n) == [i \in 1..n |-> 0]

Raise(err, buf) == [ok |-> FALSE, err |-> err, buf |-> buf]
Wrote(n, buf) == [ok |-> TRUE, n |-> n, buf |-> buf]
Decoded(val, n) == [ok |-> TRUE, val |-> val, n |-> n]


(***************************************************************************)
(* integers.py: class Int.  Uint = Int[(0, False)], U8 = Int[8],           *)
(* I8 = Int[(8, True)], ...                                                *)
(***************************************************************************)
\* Int[(size, signed)]
IntClass(size, signed) ==
    [k |-> "IntClass", byte_size |-> size \div 8, signed |-> signed,
     bound |-> IF size > 0 THEN Pow2(size) ELSE Pow2(64)]

Uint == IntClass(0, FALSE)
U8 == IntClass(8, FALSE)
U16 == IntClass(16, FALSE)
U32 == IntClass(32, FALSE)
U64 == IntClass(64, FALSE)
I8 == IntClass(8, TRUE)
I16 == IntClass(16, TRUE)
I32 == IntClass(32, TRUE)
I64 == IntClass(64, TRUE)

\* min_v <= value <= max_v
IntInRange(T, value) ==
    LET max_v == IF T.signed THEN PySub(PyNat(NatShr(T.bound, 1)), PyNat(Pow2(0)))
                 ELSE PySub(PyNat(T.bound), PyNat(Pow2(0)))
        min_v == IF T.signed THEN PyNeg(PyNat(NatShr(T.bound, 1))) ELSE PyNat(<<>>)
    IN  PyLE(min_v, value) /\ PyLE(value, max_v)

IntObj(T, value) ==
    [k |-> "Int", byte_size |-> T.byte_size, signed |-> T.signed, bound |-> T.bound,
     v |-> value]

\* a constructor that checks no range
IntNew_Unchecked(T, value) == [ok |-> TRUE, val |-> IntObj(T, value)]

\* Int.__new__
IntNew(T, value) ==
    IF ~IntInRange(T, value) THEN Raise("ValueError: out of range", <<>>)
    ELSE [ok |-> TRUE, val |-> IntObj(T, value)]

\* Int._wrap_op under __add__, __sub__, __mul__, __floordiv__, __and__, __or__, __xor__:
\* type(self)(op(int(self), int(other)))
wrap_op(x, other, op) ==
    LET T == [k |-> "IntClass", byte_size |-> x.byte_size, signed |-> x.signed,
              bound |-> x.bound]
    IN  CASE op = "+" -> IntNew(T, PyAdd(x.v, other.v))
          [] op = "-" -> IntNew(T, PySub(x.v, other.v))
          [] op = "*" -> IntNew(T, PyMul(x.v, other.v))
          [] op = "//" -> IF other.v.mag = <<>> THEN Raise("ZeroDivisionError", <<>>)
                          ELSE IntNew(T, PyFloorDiv(x.v, other.v))
          [] OTHER -> IntNew(T, PyBitwise(op, x.v, other.v))

\* Int.l: floor(ln x / (7 ln 2)), for x >= 1
l_WrongBase(x) == (Len(x) - 1) \div 8
\* the least e with x < 2^(7 + 8e)
l_ByOctets(x) ==
    CHOOSE e \in 0..8 : /\ NatLT(x, Pow2(7 + 8 * e))
                        /\ \A d \in 0..(e - 1) : ~NatLT(x, Pow2(7 + 8 * d))
l(x) == CHOOSE e \in 0..Len(x) : NatLE(Pow2(7 * e), x) /\ NatLT(x, Pow2(7 * (e + 1)))

\* Int.to_unsigned: the magnitude written to the wire
to_unsigned_NoWrap(x) == x.v.mag
to_unsigned(x) ==
    IF ~x.signed THEN x.v.mag
    ELSE IF x.v.neg
         THEN IF x.byte_size > 0 THEN PyAdd(x.v, PyNat(x.bound)).mag
              ELSE PyAdd(x.v, PyNat(Pow2(64))).mag
         ELSE x.v.mag

\* the size of the variable-length form; -1 stands for the ValueError of a value >= 2^64
VarintSize(value) ==
    IF NatLT(value, Pow2(7)) THEN 1
    ELSE IF NatLT(value, Pow2(7 * 9)) THEN 1 + l(value)
    ELSE IF NatLT(value, Pow2(64)) THEN 9
    ELSE -1

\* Int.encode_size
IntEncodeSize(x) == IF x.byte_size > 0 THEN x.byte_size ELSE VarintSize(to_unsigned(x))

\* Codable._check_buffer_size
BufferTooSmall(buf, size, offset) == Len(buf) - offset < size

\* buffer[offset] = value on a bytearray
SetOctet(buf, offset, value) == [buf EXCEPT ![offset + 1] = value]
CanSetOctet(buf, offset, value) ==
    /\ offset >= 0 /\ offset < Len(buf)
    /\ value >= 0 /\ value <= 255

\* the prefix octet of the 2..8 octet forms
VarintPrefix(value, ll) == 2 ^ 8 - 2 ^ (8 - ll) + NatToInt(NatShr(value, ll * 8))

\* the variable-length branch of Int.encode_into; size is self.encode_size()
VarintWrite(unsigned_value, size, buf, offset) ==
    LET ll == l(unsigned_value)
        prefix_value == VarintPrefix(unsigned_value, ll)
        remaining == Norm(SubSeq(unsigned_value, 1, Min(ll * 8, Len(unsigned_value))))
    IN  IF NatLT(unsigned_value, Pow2(7))
        THEN Wrote(1, SliceAssign(buf, offset, offset + 1, ToBytesLE(unsigned_value, 1)))
        ELSE IF size < 0 THEN Raise("ValueError: too large", buf)
        ELSE IF BufferTooSmall(buf, size, offset)
        THEN Raise("ValueError: buffer too small", buf)
        ELSE IF NatLT(unsigned_value, Pow2(7 * 8))
        THEN IF ~CanSetOctet(buf, offset, prefix_value)
             THEN Raise("ValueError: byte out of range", buf)
             ELSE Wrote(size, SliceAssign(SetOctet(buf, offset, prefix_value),
                                          offset + 1, offset + 1 + ll,
                                          ToBytesLE(remaining, ll)))
        ELSE IF NatLT(unsigned_value, Pow2(64))
        THEN IF ~CanSetOctet(buf, offset, 2 ^ 8 - 1) THEN Raise("IndexError", buf)
             ELSE Wrote(size, SliceAssign(SetOctet(buf, offset, 2 ^ 8 - 1),
                                          offset + 1, offset + 9,
                                          ToBytesLE(unsigned_value, 8)))
        ELSE Raise("ValueError: too large", buf)

\* Int.encode_into
IntEncodeInto(x, buf, offset) ==
    LET fixed(unsigned_value) ==
            IF Len(unsigned_value) > 8 * x.byte_size THEN Raise("OverflowError", buf)
            ELSE Wrote(x.byte_size,
                       SliceAssign(buf, offset, offset + x.byte_size,
                                   ToBytesLE(unsigned_value, x.byte_size)))
    IN  IF x.byte_size > 0 THEN fixed(to_unsigned(x))
        ELSE VarintWrite(to_unsigned(x), IntEncodeSize(x), buf, offset)

\* ceil(ln n / ln 2): _l is floor(8 - ln(2^8 - tag) / ln 2), for a tag in 128..254
RECURSIVE CeilLog2(_)
CeilLog2(n) == IF n <= 1 THEN 0 ELSE 1 + CeilLog2((n + 1) \div 2)

\* the signed value of an unsigned reading
FromSignBit(T, unsigned_value, sign_bit, bound) ==
    IF T.signed /\ NatLE(sign_bit, unsigned_value)
    THEN PySub(PyNat(unsigned_value), PyNat(bound))
    ELSE PyNat(unsigned_value)

\* cls(value), size: what decode_from returns, or the error the constructor raised
Made(made, size) == IF made.ok THEN Decoded(made.val, size) ELSE made

\* the 2..8 octet forms: alpha * 2^(8 l) + beta
VarintValue_NoAlpha(tag, ll, beta) == beta
VarintValue(tag, ll, beta) ==
    LET alpha == tag + 2 ^ (8 - ll) - 2 ^ 8
    IN  NatAdd([i \in 1..(ll * 8) |-> 0] \o NatFromInt(alpha), beta)

\* the branches of the variable-length decoding: unsigned_value and size
VarintRead(tag, buf, offset) ==
    LET ll == 8 - CeilLog2(2 ^ 8 - tag) IN
    IF tag < 2 ^ 7 THEN Decoded(NatFromInt(tag), 1)
    ELSE IF tag = 2 ^ 8 - 1
    THEN IF Len(buf) - offset < 9 THEN Raise("ValueError: buffer too small", <<>>)
         ELSE Decoded(FromBytesLE(Slice(buf, offset + 1, offset + 9)), 9)
    ELSE IF Len(buf) - offset < ll + 1 THEN Raise("ValueError: buffer too small", <<>>)
    ELSE Decoded(VarintValue(tag, ll, FromBytesLE(Slice(buf, offset + 1, offset + 1 + ll))),
                 ll + 1)

\* Int.decode_from
IntDecodeFrom(T, buf, offset) ==
    LET signed(r) ==
            IF ~r.ok THEN r
            ELSE Made(IntNew(T, FromSignBit(T, r.val, Pow2(63), Pow2(64))), r.n)
    IN  IF T.byte_size > 0
        THEN Made(IntNew(T, FromSignBit(T, FromBytesLE(Slice(buf, offset,
                                                             offset + T.byte_size)),
                                        Pow2(T.byte_size * 8 - 1), T.bound)),
                  T.byte_size)
        ELSE signed(VarintRead(NatToInt(FromBytesLE(Slice(buf, offset, offset + 1))),
                               buf, offset))

\* Uint(n) for a small n, as the length prefixes use it
UintOf(n) == IntObj(Uint, PyNat(NatFromInt(n)))

(***************************************************************************)
(* string.py: class String(str).  A str is its sequence of code points.    *)
(***************************************************************************)
StringClass == [k |-> "StringClass"]
StringObj(s) == [k |-> "String", s |-> s]

\* str.encode("utf-8"), code point by code point (surrogates cannot be encoded); the
\* encoding of a text of several code points is that of its halves, one after the other
RECURSIVE Utf8(_)
Utf8(s) ==
    LET c == s[1]
        half == Len(s) \div 2
    IN  IF s = <<>> THEN <<>>
        ELSE IF Len(s) > 1
        THEN Utf8(SubSeq(s, 1, half)) \o Utf8(SubSeq(s, half + 1, Len(s)))
        ELSE IF c < 128 THEN <<c>>
        ELSE IF c < 2048 THEN <<192 + (c \div 64), 128 + (c % 64)>>
        ELSE IF c < 65536
        THEN <<224 + (c \div 4096), 128 + ((c \div 64) % 64), 128 + (c % 64)>>
        ELSE <<240 + (c \div 262144), 128 + ((c \div 4096) % 64),
               128 + ((c \div 64) % 64), 128 + (c % 64)>>

\* bytes.decode("latin-1"): every octet is a code point, nothing is refused
Utf8Decode_Latin1(b) == b

\* bytes.decode("utf-8"): the code points, or <<-1>> for a UnicodeDecodeError.  The
\* octets are read from the front, one code point at a time; an octet that is not a
\* continuation octet (10xxxxxx) can only begin a code point, so a long input is read
\* as the part before such an octet and the part from it on.
RECURSIVE Utf8Decode(_)
Utf8Decode(b) ==
    IF b = <<>> THEN <<>>
    ELSE LET c == b[1]
             IsCont(i) == i <= Len(b) /\ b[i] >= 128 /\ b[i] < 192
             n == IF c < 128 THEN 1
                  ELSE IF c >= 194 /\ c < 224 /\ IsCont(2) THEN 2
                  ELSE IF c >= 224 /\ c < 240 /\ IsCont(2) /\ IsCont(3) THEN 3
                  ELSE IF c >= 240 /\ c < 245 /\ IsCont(2) /\ IsCont(3) /\ IsCont(4)
                       THEN 4
                  ELSE 0
             cp == IF n = 1 THEN c
                   ELSE IF n = 2 THEN (c - 192) * 64 + (b[2] - 128)
                   ELSE IF n = 3 THEN (c - 224) * 4096 + (b[2] - 128) * 64 + (b[3] - 128)
                   ELSE (c - 240) * 262144 + (b[2] - 128) * 4096 + (b[3] - 128) * 64
                        + (b[4] - 128)
             valid == /\ n > 0
                      /\ n = 3 => cp >= 2048 /\ ~(cp >= 55296 /\ cp < 57344)
                      /\ n = 4 => cp >= 65536 /\ cp < 1114112
             rest == IF valid THEN Utf8Decode(SubSeq(b, n + 1, Len(b))) ELSE <<-1>>
             begins == {i \in (Len(b) \div 2 + 1)..Len(b) : ~IsCont(i)}
             m == CHOOSE i \in begins : \A j \in begins : i <= j
             before == Utf8Decode(SubSeq(b, 1, m - 1))
             from == Utf8Decode(SubSeq(b, m, Len(b)))
         IN  IF Len(b) > 8 /\ begins # {}
             THEN IF before = <<-1>> \/ from = <<-1>> THEN <<-1>> ELSE before \o from
             ELSE IF ~valid \/ rest = <<-1>> THEN <<-1>> ELSE <<cp>> \o rest

\* String.encode_size
StringEncodeSize(x) ==
    LET utf8_bytes == Utf8(x.s)
    IN  IntEncodeSize(UintOf(Len(utf8_bytes))) + Len(utf8_bytes)

\* String.encode_into: the length, then the text
StringEncodeInto(x, buf, offset) ==
    LET text(utf8_bytes, w) ==
            IF ~w.ok THEN w
            ELSE Wrote(w.n + Len(utf8_bytes),
                       SliceAssign(w.buf, offset + w.n, offset + w.n + Len(utf8_bytes),
                                   utf8_bytes))
    IN  text(Utf8(x.s), IntEncodeInto(UintOf(Len(Utf8(x.s))), buf, offset))

\* String.decode_from: the length, read as r, then the text
StringDecodeFrom(buf, offset) ==
    LET text(r) ==
            LET byte_len == NatToInt(r.val.v.mag)
                current_offset == offset + r.n
                decoded_string ==
                    Utf8Decode(Slice(buf, current_offset, current_offset + byte_len))
            IN  IF ~r.ok THEN r
                ELSE IF NatLT(NatFromInt(MAX_STRING_BYTES), r.val.v.mag)
                THEN Raise("ValueError: exceeds maximum", <<>>)
                ELSE IF Len(buf) - current_offset < byte_len
                THEN Raise("ValueError: insufficient buffer", <<>>)
                ELSE IF decoded_string = <<-1>> THEN Raise("ValueError: invalid UTF-8", <<>>)
                ELSE Decoded(StringObj(decoded_string), current_offset + byte_len - offset)
    IN  text(IntDecodeFrom(Uint, buf, offset))

(***************************************************************************)
(* bits.py: class Bits(Seq), a list of bool.  The length bounds are Python *)
(* ints (2 ** 64 for a variable length).                                   *)
(***************************************************************************)
\* Bits.__class_getitem__: Bits[(n, order)], Bits[n], Bits[order]
BitsFixed(n, order) ==
    [k |-> "BitsClass", min_length |-> NatFromInt(n), max_length |-> NatFromInt(n),
     order |-> order]
BitsVar(order) ==
    [k |-> "BitsClass", min_length |-> <<>>, max_length |-> Pow2(64), order |-> order]

BitsObj(T, bits) ==
    [k |-> "Bits", min_length |-> T.min_length, max_length |-> T.max_length,
     order |-> T.order, bits |-> bits]

\* Seq._validate_self: TRUE when the length is within the bounds of the type
LengthValid(T, n) == NatLE(T.min_length, NatFromInt(n)) /\ NatLE(NatFromInt(n), T.max_length)

\* Bits.__init__ and _bits_from_list
BitsNew(T, bits) ==
    IF \E i \in 1..Len(bits) : bits[i] \notin BOOLEAN THEN Raise("TypeError", <<>>)
    ELSE IF ~LengthValid(T, Len(bits)) THEN Raise("ValueError: length", <<>>)
    ELSE [ok |-> TRUE, val |-> BitsObj(T, bits)]

is_fixed_length(T) == T.min_length = T.max_length /\ T.min_length # <<>>

\* the number the variable form is prefixed with
BitsPrefix_ByteCount(bit_len, byte_count) == byte_count
BitsPrefix(bit_len, byte_count) == bit_len

\* Bits.encode_size
BitsEncodeSize(x) ==
    LET bit_enc == IF ~is_fixed_length(x)
                   THEN IntEncodeSize(UintOf(BitsPrefix(Len(x.bits), (Len(x.bits) + 7) \div 8)))
                   ELSE 0
    IN  bit_enc + ((Len(x.bits) + 7) \div 8)

\* the position in its octet of the j-th bit (j from 0) of a group of eight
BitPosition_Lsb(order, j) == j
BitPosition(order, j) == IF order = "msb" THEN 7 - j ELSE j

\* the inner loop of _pack_bits_to_bytes: val after j = from .. 7, idx = first + j
RECURSIVE PackOctet(_, _, _, _, _)
PackOctet(bits, bit_len, order, first, from) ==
    IF from > 7 THEN 0
    ELSE (IF first + from < bit_len /\ bits[first + from + 1]
          THEN 2 ^ BitPosition(order, from) ELSE 0)
         + PackOctet(bits, bit_len, order, first, from + 1)

\* _pack_bits_to_bytes
pack_bits_to_bytes(bits, bit_len, order) ==
    [i \in 1..((bit_len + 7) \div 8) |-> PackOctet(bits, bit_len, order, 8 * (i - 1), 0)]

\* the end of Bits.encode_into: the packed octets after the prefix that w wrote
BitsWrite(x, total_size, w, offset) ==
    IF ~w.ok THEN w
    ELSE IF Len(x.bits) = 0 THEN Wrote(total_size, w.buf)
    ELSE Wrote(total_size,
               SliceAssign(w.buf, offset + w.n, offset + w.n + ((Len(x.bits) + 7) \div 8),
                           pack_bits_to_bytes(x.bits, Len(x.bits), x.order)))

\* Bits.encode_into from _check_buffer_size on
BitsChecked(x, total_size, buf, offset) ==
    IF BufferTooSmall(buf, total_size, offset) THEN Raise("ValueError: buffer too small", buf)
    ELSE BitsWrite(x, total_size,
                   IF is_fixed_length(x) THEN Wrote(0, buf)
                   ELSE IntEncodeInto(UintOf(BitsPrefix(Len(x.bits), (Len(x.bits) + 7) \div 8)),
                                      buf, offset),
                   offset)

\* Bits.encode_into
BitsEncodeInto(x, buf, offset) ==
    LET bit_len == Len(x.bits)
        byte_count == (bit_len + 7) \div 8
    IN  IF is_fixed_length(x) /\ NatFromInt(bit_len) # x.min_length
        THEN Raise("ValueError: length", buf)
        ELSE BitsChecked(x,
                         byte_count
                         + (IF is_fixed_length(x) THEN 0
                            ELSE IntEncodeSize(UintOf(BitsPrefix(bit_len, byte_count)))),
                         buf, offset)

\* a row of the table _BYTE_TO_BITS_MSB: the eight bits of an octet, high bit first
ByteToBitsMsb(byte) == [j \in 1..8 |-> (byte \div (2 ^ (8 - j))) % 2 = 1]
\* [bool((byte >> i) & 1) for i in range(8)]
ByteToBitsLsb(byte) == [j \in 1..8 |-> (byte \div (2 ^ (j - 1))) % 2 = 1]

RECURSIVE UnpackBits(_, _)
UnpackBits(view, order) ==
    IF view = <<>> THEN <<>>
    ELSE (IF order = "msb" THEN ByteToBitsMsb(view[1]) ELSE ByteToBitsLsb(view[1]))
         \o UnpackBits(Tail(view), order)

\* Bits.decode_from once the bit count is known: r is the count and the octets it took
BitsRead(T, r, buf, offset) ==
    LET len == NatToInt(r.val.v.mag)
        byte_count == (len + 7) \div 8
        view == Slice(buf, offset + r.n, offset + r.n + byte_count)
        result_bits == SubSeq(UnpackBits(view, T.order), 1, len)
    IN  IF ~r.ok THEN r
        ELSE IF r.val.v.mag = <<>> THEN Made(BitsNew(T, <<>>), r.n)
        ELSE IF Len(r.val.v.mag) > 30 THEN Raise("ValueError: buffer too small", <<>>)
        ELSE IF BufferTooSmall(buf, byte_count, offset + r.n)
        THEN Raise("ValueError: buffer too small", <<>>)
        ELSE Made(BitsNew(T, result_bits), r.n + byte_count)

\* Bits.decode_from
BitsDecodeFrom(T, buf, offset) ==
    BitsRead(T,
             IF is_fixed_length(T) THEN Decoded(IntObj(Uint, PyNat(T.min_length)), 0)
             ELSE IntDecodeFrom(Uint, buf, offset),
             buf, offset)

\* bytes.hex(): two lowercase digits an octet; a string is the sequence of its characters
HexDigits == <<"0", "1", "2", "3", "4", "5", "6", "7", "8", "9", "a", "b", "c", "d", "e", "f">>
RECURSIVE Hex(_)
Hex(octets) ==
    IF octets = <<>> THEN <<>>
    ELSE <<HexDigits[(octets[1] \div 16) + 1], HexDigits[(octets[1] % 16) + 1]>> \o Hex(Tail(octets))

\* Bytes.from_json: the octets of a hex string of either case after an optional 0x
FromHex(json_str) ==
    LET upper == <<"0", "1", "2", "3", "4", "5", "6", "7", "8", "9",
                   "A", "B", "C", "D", "E", "F">>
        digits == IF Len(json_str) >= 2 /\ SubSeq(json_str, 1, 2) = <<"0", "x">>
                  THEN SubSeq(json_str, 3, Len(json_str)) ELSE json_str
        valid(c) == \E d \in 1..16 : c \in {HexDigits[d], upper[d]}
        value(c) == (CHOOSE d \in 1..16 : c \in {HexDigits[d], upper[d]}) - 1
    IN  IF (Len(digits) % 2) = 1 \/ \E i \in 1..Len(digits) : ~valid(digits[i])
        THEN Raise("ValueError: hex", <<>>)
        ELSE [ok |-> TRUE,
              val |-> [i \in 1..(Len(digits) \div 2) |->
                          16 * value(digits[2 * i - 1]) + value(digits[2 * i])]]

\* Bits.to_json: Bytes.from_bits packs the bits as the encoder does, a last octet that is
\* not full padded with zero bits
BitsToJson(x) == Hex(pack_bits_to_bytes(x.bits, Len(x.bits), x.order))

\* Bits.from_json: Bytes.to_bits yields the eight bits of every octet
BitsFromJson(T, json_str) ==
    LET parsed == FromHex(json_str)
        bits == UnpackBits(parsed.val, T.order)
    IN  IF ~parsed.ok THEN parsed
        ELSE IF T.min_length = T.max_length /\ T.min_length # <<>>
        THEN BitsNew(T, SubSeq(bits, 1, Min(NatToInt(T.min_length), Len(bits))))
        ELSE BitsNew(T, bits)

(***************************************************************************)
(* bytearray.py: class ByteArray(bytearray), and bytes.py: class           *)
(* Bytes(bytes).  A byte string is the sequence of its octets.  The length *)
(* of a Bytes type is 0 for Bytes itself, whose _length is None.           *)
(***************************************************************************)
ByteArrayClass == [k |-> "ByteArrayClass"]
ByteArrayObj(data) == [k |-> "ByteArray", data |-> data]

\* ByteArray.encode_size
ByteArrayEncodeSize(x) == IntEncodeSize(UintOf(Len(x.data))) + Len(x.data)

\* ByteArray.encode_into: the length (one octet stored in place below 128), then the octets
ByteArrayEncodeInto(x, buf, offset) ==
    LET data(w) ==
            IF ~w.ok THEN w
            ELSE Wrote(w.n + Len(x.data),
                       SliceAssign(w.buf, offset + w.n, offset + w.n + Len(x.data), x.data))
    IN  data(IF Len(x.data) < 128
             THEN IF CanSetOctet(buf, offset, Len(x.data))
                  THEN Wrote(1, SetOctet(buf, offset, Len(x.data)))
                  ELSE Raise("IndexError", buf)
             ELSE IntEncodeInto(UintOf(Len(x.data)), buf, offset))

\* the two guards of ByteArray.decode_from on the declared length and on the octets
\* left in the buffer: the error raised, "" when none is
ByteArrayGuard_RemainingFirst(declared, remaining) ==
    IF remaining < 0 \/ NatLT(NatFromInt(Max(remaining, 0)), declared)
    THEN "ValueError: insufficient buffer"
    ELSE IF NatLT(NatFromInt(MAX_BYTEARRAY_SIZE), declared)
    THEN "ValueError: exceeds maximum"
    ELSE ""
ByteArrayGuard(declared, remaining) ==
    IF NatLT(NatFromInt(MAX_BYTEARRAY_SIZE), declared)
    THEN "ValueError: exceeds maximum"
    ELSE IF remaining < 0 \/ NatLT(NatFromInt(Max(remaining, 0)), declared)
    THEN "ValueError: insufficient buffer"
    ELSE ""

\* ByteArray.decode_from: the length, read as r, then the octets
ByteArrayDecodeFrom(buf, offset) ==
    LET octets(current_offset, len) ==
            Decoded(ByteArrayObj(Slice(buf, current_offset, current_offset + len)),
                    current_offset + len - offset)
        guarded(r, err) ==
            IF err # "" THEN Raise(err, <<>>)
            ELSE octets(offset + r.n, NatToInt(r.val.v.mag))
        data(r) ==
            IF ~r.ok THEN r
            ELSE guarded(r, ByteArrayGuard(r.val.v.mag, Len(buf) - (offset + r.n)))
    IN  data(IF Len(buf) > offset /\ buf[offset + 1] < 128
             THEN Decoded(UintOf(buf[offset + 1]), 1)
             ELSE IntDecodeFrom(Uint, buf, offset))

\* Bytes.__class_getitem__
BytesClass(length) == [k |-> "BytesClass", length |-> length]
BytesObj(T, data) == [k |-> "Bytes", length |-> T.length, data |-> data]

\* Bytes.encode_size
BytesEncodeSize(x) ==
    IF x.length = 0 THEN IntEncodeSize(UintOf(Len(x.data))) + Len(x.data) ELSE x.length

\* Bytes.encode_into
BytesEncodeInto(x, buf, offset) ==
    LET data(len, w) ==
            IF ~w.ok THEN w
            ELSE Wrote(w.n + len,
                       SliceAssign(w.buf, offset + w.n, offset + w.n + len, x.data))
    IN  IF x.length = 0
        THEN data(Len(x.data), IntEncodeInto(UintOf(Len(x.data)), buf, offset))
        ELSE data(x.length, Wrote(0, buf))

\* bytes.py: _BYTES_CACHE_MAX_SIZE
BYTES_CACHE_MAX_SIZE == 1000

\* a store that evicts nothing
CacheStore_KeepAll(cache, cache_key, res) == Append(cache, [key |-> cache_key, value |-> res])

\* the end of Bytes.decode_from: the result is stored, in a full cache after the first
\* _BYTES_CACHE_MAX_SIZE // 4 keys were deleted
CacheStore(cache, cache_key, res) ==
    IF Len(cache) < BYTES_CACHE_MAX_SIZE
    THEN Append(cache, [key |-> cache_key, value |-> res])
    ELSE Append(SubSeq(cache, BYTES_CACHE_MAX_SIZE \div 4 + 1, Len(cache)),
                [key |-> cache_key, value |-> res])

\* Bytes.decode_from: what it returns or raises, and the cache afterwards.  The cache is
\* a dict, kept as its entries in insertion order; a hit returns the stored result, a
\* result is stored after a quarter of the entries is dropped from a full cache.  A
\* declared length of 2 ** 30 or more is longer than any slice of the buffer.
BytesDecodeFrom(T, cache, buf, offset) ==
    LET cache_key ==
            <<T, T.length, Slice(buf, offset, offset + Min(64, Len(buf) - offset)), offset>>
        returned(res) == [result |-> res, cache |-> CacheStore(cache, cache_key, res)]
        read(r) ==
            LET current_offset == offset + r.n
                len == NatToInt(r.val.v.mag)
            IN  IF ~r.ok THEN [result |-> r, cache |-> cache]
                ELSE IF Len(r.val.v.mag) > 30
                        \/ Len(Slice(buf, current_offset, current_offset + len)) < len
                THEN [result |-> Raise("TypeError: insufficient buffer", <<>>),
                      cache |-> cache]
                ELSE returned(Decoded(BytesObj(T, Slice(buf, current_offset,
                                                        current_offset + len)),
                                      current_offset + len - offset))
    IN  IF \E i \in 1..Len(cache) : cache[i].key = cache_key
        THEN [result |-> cache[CHOOSE i \in 1..Len(cache) : cache[i].key = cache_key].value,
              cache |-> cache]
        ELSE read(IF T.length = 0 THEN IntDecodeFrom(Uint, buf, offset)
                  ELSE Decoded(UintOf(T.length), 0))

(***************************************************************************)
(* null.py is not part of the sources: Null is the one value of NullType   *)
(* and encodes to no octets.                                               *)
(***************************************************************************)
Null == [k |-> "Null"]
NullType == [k |-> "NullType"]

(***************************************************************************)
(* The per-value contract of the element types (Int, String, Bits, the     *)
(* byte strings, Null),                                                    *)
(* dispatched on the kind of the value or of the type.                     *)
(***************************************************************************)
encode_size(x) ==
    CASE x.k = "Int" -> IntEncodeSize(x)
      [] x.k = "String" -> StringEncodeSize(x)
      [] x.k = "Bits" -> BitsEncodeSize(x)
      [] x.k = "ByteArray" -> ByteArrayEncodeSize(x)
      [] x.k = "Bytes" -> BytesEncodeSize(x)
      [] x.k = "Null" -> 0

encode_into(x, buf, offset) ==
    CASE x.k = "Int" -> IntEncodeInto(x, buf, offset)
      [] x.k = "String" -> StringEncodeInto(x, buf, offset)
      [] x.k = "Bits" -> BitsEncodeInto(x, buf, offset)
      [] x.k = "ByteArray" -> ByteArrayEncodeInto(x, buf, offset)
      [] x.k = "Bytes" -> BytesEncodeInto(x, buf, offset)
      [] x.k = "Null" -> Wrote(0, buf)

decode_from(T, buf, offset) ==
    CASE T.k = "IntClass" -> IntDecodeFrom(T, buf, offset)
      [] T.k = "StringClass" -> StringDecodeFrom(buf, offset)
      [] T.k = "BitsClass" -> BitsDecodeFrom(T, buf, offset)
      [] T.k = "ByteArrayClass" -> ByteArrayDecodeFrom(buf, offset)
      [] T.k = "NullType" -> Decoded(Null, 0)

\* current_offset += x.encode_into(buffer, current_offset): w is the outcome of the writes
\* made from offset on, w2 that of the next one
Advance(w, w2) == IF ~w2.ok THEN w2 ELSE Wrote(w.n + w2.n, w2.buf)

\* Codable.encode: a fresh buffer of encode_size() octets, filled by encode_into
encode(x) ==
    LET filled(size) ==
            IF size < 0 THEN Raise("ValueError: too large", <<>>)
            ELSE encode_into(x, Zeros(size), 0)
    IN  filled(encode_size(x))

(***************************************************************************)
(* option.py: class Option(Choice).  choice.py and null.py are not part of *)
(* the sources; the wire form of Choice and Null is the specified one.     *)
(***************************************************************************)
\* Option.__class_getitem__
OptionClass(opt_t) == [k |-> "OptionClass", opt_types |-> <<opt_t, NullType>>]

\* Option.__init__
OptionObj(T, val) == [k |-> "Option", opt_types |-> T.opt_types, value |-> val]

\* the discriminant of an Option: 1 = present, 0 = absent
OptionTag_Swapped(x) == IF x.value = Null THEN 1 ELSE 0
OptionTag(x) == IF x.value = Null THEN 0 ELSE 1

\* Choice.encode_size, for an Option
OptionEncodeSize(x) == 1 + encode_size(x.value)

\* Choice.encode_into, for an Option: the tag octet, then the branch
OptionEncodeInto(x, buf, offset) ==
    IF ~CanSetOctet(buf, offset, OptionTag(x)) THEN Raise("IndexError", buf)
    ELSE Advance(Wrote(1, buf),
                 encode_into(x.value, SetOctet(buf, offset, OptionTag(x)), offset + 1))

\* Choice.decode_from, for an Option
OptionDecodeFrom(T, buf, offset) ==
    LET present(r) == IF ~r.ok THEN r ELSE Decoded(OptionObj(T, r.val), 1 + r.n)
    IN  IF Len(buf) - offset < 1 THEN Raise("ValueError: buffer too small", <<>>)
        ELSE IF buf[offset + 1] = 0 THEN Decoded(OptionObj(T, Null), 1)
        ELSE IF buf[offset + 1] = 1 THEN present(decode_from(T.opt_types[1], buf, offset + 1))
        ELSE Raise("ValueError: invalid variant", <<>>)

\* a truthiness that follows the payload
OptionBool_OfPayload(x) == x.value # Null /\ x.value.v.mag # <<>>

\* Option.__bool__
OptionBool(x) == x.value # Null

\* Choice.set, for an Option and a value of one of its two types: None stands for Null
OptionSet(x, value) == [x EXCEPT !.value = IF value = None THEN Null ELSE value]

\* Codable.encode on an Option
OptionEncode(x) == OptionEncodeInto(x, Zeros(OptionEncodeSize(x)), 0)

(***************************************************************************)
(* Python's comparisons of the values used as keys.                        *)
(***************************************************************************)
\* lexicographic order of two sequences of numbers (str by code point, bytes by octet)
LexLT(a, b) ==
    \E i \in 1..(Min(Len(a), Len(b)) + 1) :
        /\ \A j \in 1..(i - 1) : a[j] = b[j]
        /\ \/ i > Len(a) /\ i <= Len(b)
           \/ i <= Len(a) /\ i <= Len(b) /\ a[i] < b[i]

\* a < b raises TypeError between an int and a str
Comparable(a, b) == a.k = b.k /\ a.k \in {"Int", "String"}
PyLess(a, b) == IF a.k = "Int" THEN PyLT(a.v, b.v) ELSE LexLT(a.s, b.s)
\* a == b (and hash): an int equals an int of the same value, whatever its class
PyEq(a, b) == /\ a.k = b.k
              /\ IF a.k = "Int" THEN a.v = b.v ELSE a = b

\* isinstance(x, T): IntCheckMeta compares byte_size only
IsInstance(x, T) ==
    IF T.k = "IntClass" THEN x.k = "Int" /\ x.byte_size = T.byte_size
    ELSE IF T.k = "StringClass" THEN x.k = "String"
    ELSE FALSE

\* sorted(s) under the order LT: stable
Sorted(s, LT(_, _)) ==
    LET before(j, i) == LT(s[j], s[i]) \/ (~LT(s[i], s[j]) /\ j < i)
        rank(i) == Cardinality({j \in 1..Len(s) : before(j, i)}) + 1
    IN  [r \in 1..Len(s) |-> s[CHOOSE i \in 1..Len(s) : rank(i) = r]]

(***************************************************************************)
(* dictionary.py: class Dictionary(dict).  The dict is the sequence of its *)
(* items in insertion order.                                               *)
(***************************************************************************)
\* Dictionary.__class_getitem__
DictClass(K, V) == [k |-> "DictClass", key_type |-> K, value_type |-> V]

Item(key, value) == [key |-> key, value |-> value]

\* Dictionary.__init__ before its update(initial)
DictObj(T) ==
    [k |-> "Dictionary", key_type |-> T.key_type, value_type |-> T.value_type,
     items |-> <<>>, sorted_keys_cache |-> None, dirty |-> TRUE]

Keys(items) == [i \in 1..Len(items) |-> items[i].key]

\* the place of key in the dict, 0 when it is not in it
DictIndex(items, key) ==
    IF \E i \in 1..Len(items) : PyEq(items[i].key, key)
    THEN CHOOSE i \in 1..Len(items) : PyEq(items[i].key, key)
    ELSE 0

\* dict.__setitem__: a present key keeps its place and its key object
DictStore(items, key, value) ==
    IF DictIndex(items, key) > 0
    THEN [items EXCEPT ![DictIndex(items, key)].value = value]
    ELSE Append(items, Item(key, value))

\* dict.update(other)
RECURSIVE DictStoreAll(_, _)
DictStoreAll(items, other) ==
    IF other = <<>> THEN items
    ELSE DictStoreAll(DictStore(items, other[1].key, other[1].value), Tail(other))

\* Dictionary._validate: TRUE when it raises TypeError
DictInvalid(d, key, value) ==
    ~IsInstance(key, d.key_type) \/ ~IsInstance(value, d.value_type)

Updated(d) == [ok |-> TRUE, self |-> d]
TypeError(d) == [ok |-> FALSE, err |-> "TypeError", self |-> d]

\* Dictionary.__setitem__
DictSetItem(d, key, value) ==
    IF DictInvalid(d, key, value) THEN TypeError(d)
    ELSE Updated([d EXCEPT !.items = DictStore(d.items, key, value),
                           !.dirty = TRUE, !.sorted_keys_cache = None])

\* Dictionary.update
DictUpdate(d, other) ==
    IF \E i \in 1..Len(other) : DictInvalid(d, other[i].key, other[i].value)
    THEN TypeError(d)
    ELSE Updated([d EXCEPT !.items = DictStoreAll(d.items, other),
                           !.dirty = TRUE, !.sorted_keys_cache = None])

\* dict.setdefault, which Dictionary inherits
DictSetDefault(d, key, default) ==
    IF DictIndex(d.items, key) > 0 THEN Updated(d)
    ELSE Updated([d EXCEPT !.items = Append(d.items, Item(key, default))])

\* dict.__ior__ (d |= other), which Dictionary inherits
DictIOr(d, other) == Updated([d EXCEPT !.items = DictStoreAll(d.items, other)])

\* dict.__delitem__, pop, popitem and clear, which Dictionary inherits: none of them
\* touches _dirty or _sorted_keys_cache
DictRemove(d, method, key) ==
    LET without(i) ==
            IF i = 0 THEN [ok |-> FALSE, err |-> "KeyError", self |-> d]
            ELSE Updated([d EXCEPT !.items = SubSeq(d.items, 1, i - 1)
                                              \o SubSeq(d.items, i + 1, Len(d.items))])
    IN  CASE method = "clear" -> Updated([d EXCEPT !.items = <<>>])
          [] method = "popitem" -> without(Len(d.items))
          [] OTHER -> without(DictIndex(d.items, key))

\* Dictionary.encode_size
RECURSIVE ItemsSize(_)
ItemsSize(items) ==
    IF items = <<>> THEN 0
    ELSE encode_size(items[1].key) + encode_size(items[1].value) + ItemsSize(Tail(items))

DictEncodeSize(d) == IntEncodeSize(UintOf(Len(d.items))) + ItemsSize(d.items)

\* the order of sorted(self.keys()), and of its fallback when that raises TypeError
SortedKeys(keys) ==
    LET EncodedLess(a, b) == LexLT(encode(a).buf, encode(b).buf)
    IN  IF \A i, j \in 1..Len(keys) : Comparable(keys[i], keys[j])
        THEN Sorted(keys, PyLess)
        ELSE Sorted(keys, EncodedLess)

\* Dictionary._get_sorted_items: the object afterwards, and the items or the KeyError
\* of self[k]
DictSortedItems(d) ==
    LET listed(d1) ==
            IF \E i \in 1..Len(d1.sorted_keys_cache.v) :
                  DictIndex(d1.items, d1.sorted_keys_cache.v[i]) = 0
            THEN [ok |-> FALSE, err |-> "KeyError", self |-> d1]
            ELSE [ok |-> TRUE, self |-> d1,
                  items |-> [i \in 1..Len(d1.sorted_keys_cache.v) |->
                                Item(d1.sorted_keys_cache.v[i],
                                     d1.items[DictIndex(d1.items,
                                                        d1.sorted_keys_cache.v[i])].value)]]
    IN  listed(IF d.dirty \/ d.sorted_keys_cache = None
               THEN [d EXCEPT !.sorted_keys_cache = [v |-> SortedKeys(Keys(d.items))],
                              !.dirty = FALSE]
               ELSE d)

\* current_offset += x.encode_into(buffer, current_offset), after the writes w made from
\* offset on
EncodeNext(x, w, offset) ==
    IF ~w.ok THEN w ELSE Advance(w, encode_into(x, w.buf, offset + w.n))

\* the loop of Dictionary.encode_into
RECURSIVE EncodeItems(_, _, _)
EncodeItems(items, w, offset) ==
    IF ~w.ok \/ items = <<>> THEN w
    ELSE EncodeItems(Tail(items),
                     EncodeNext(items[1].value, EncodeNext(items[1].key, w, offset), offset),
                     offset)

\* Dictionary.encode_into after the count that w wrote; si is what _get_sorted_items gives
DictWrite(d, w, si, offset) ==
    IF ~w.ok THEN w @@ [self |-> d]
    ELSE IF ~si.ok THEN Raise(si.err, w.buf) @@ [self |-> si.self]
    ELSE EncodeItems(si.items, w, offset) @@ [self |-> si.self]

\* Dictionary.encode_into; the outcome carries the object, whose cache it fills
DictEncodeInto(d, buf, offset) ==
    DictWrite(d, IntEncodeInto(UintOf(Len(d.items)), buf, offset), DictSortedItems(d), offset)

\* Codable.encode on a Dictionary
DictEncode(d) == DictEncodeInto(d, Zeros(DictEncodeSize(d)), 0)

\* the order check of Dictionary.decode_from: TRUE when it raises
KeyOutOfOrder_AllowEqual(key, prev_key) == prev_key # None /\ PyLess(key, prev_key)
KeyOutOfOrder(key, prev_key) ==
    prev_key # None /\ (PyLess(key, prev_key) \/ PyEq(key, prev_key))

RECURSIVE DictDecodeLoop(_, _, _, _, _)

\* one round of the loop of Dictionary.decode_from, from the value on: rk is the key read
DictDecodeValue(res, buf, current_offset, left, rk, rv) ==
    LET st == DictSetItem(res, rk.val, rv.val)
    IN  IF ~rv.ok THEN rv
        ELSE IF ~st.ok THEN Raise(st.err, <<>>)
        ELSE DictDecodeLoop(st.self, buf, current_offset + rk.n + rv.n, left - 1, rk.val)

\* one round of the loop of Dictionary.decode_from, from the order check on
DictDecodeKey(res, buf, current_offset, left, prev_key, rk) ==
    IF ~rk.ok THEN rk
    ELSE IF KeyOutOfOrder(rk.val, prev_key) THEN Raise("ValueError: ascending order", <<>>)
    ELSE DictDecodeValue(res, buf, current_offset, left, rk,
                         decode_from(res.value_type, buf, current_offset + rk.n))

\* the loop of Dictionary.decode_from
DictDecodeLoop(res, buf, current_offset, left, prev_key) ==
    IF left = 0 THEN Decoded(res, current_offset)
    ELSE DictDecodeKey(res, buf, current_offset, left, prev_key,
                       decode_from(res.key_type, buf, current_offset))

\* Dictionary.decode_from after the count, read as r
DictRead(T, r, buf, offset) ==
    LET returned(done) == IF ~done.ok THEN done ELSE Decoded(done.val, done.n - offset)
    IN  IF ~r.ok THEN r
        ELSE IF NatLT(NatFromInt(MAX_DICTIONARY_SIZE), r.val.v.mag)
        THEN Raise("ValueError: exceeds maximum", <<>>)
        ELSE returned(DictDecodeLoop(DictObj(T), buf, offset + r.n,
                                     NatToInt(r.val.v.mag), None))

\* Dictionary.decode_from
DictDecodeFrom(T, buf, offset) == DictRead(T, IntDecodeFrom(Uint, buf, offset), buf, offset)

(***************************************************************************)
(* struct.py: the classes @structure makes.                                *)
(***************************************************************************)
Field(name, type) == [name |-> name, type |-> type]
RecordClass(fields) == [k |-> "RecordClass", fields |-> fields]
\* the dataclass __init__, every field given
RecordObj(T, values) == [k |-> "Record", fields |-> T.fields, values |-> values]

\* structure.wrap.encode_size
RECURSIVE FieldsSize(_)
FieldsSize(values) ==
    IF values = <<>> THEN 0 ELSE encode_size(values[1]) + FieldsSize(Tail(values))

RecordEncodeSize(x) == FieldsSize(x.values)

\* the loop of structure.wrap.encode_into
RECURSIVE EncodeFields(_, _, _)
EncodeFields(values, w, offset) ==
    IF ~w.ok \/ values = <<>> THEN w
    ELSE EncodeFields(Tail(values), EncodeNext(values[1], w, offset), offset)

\* structure.wrap.encode_into
RecordEncodeInto(x, buf, offset) == EncodeFields(x.values, Wrote(0, buf), offset)

\* the offset the next field is read at
NextFieldOffset_Restart(current_offset, size) == current_offset
NextFieldOffset(current_offset, size) == current_offset + size

RECURSIVE DecodeFields(_, _, _, _)

\* one round of the loop of structure.wrap.decode_from: r is the field read
DecodeField(fields, buf, current_offset, decoded_values, r) ==
    IF ~r.ok THEN r
    ELSE DecodeFields(Tail(fields), buf, NextFieldOffset(current_offset, r.n),
                      Append(decoded_values, r.val))

\* the loop of structure.wrap.decode_from
DecodeFields(fields, buf, current_offset, decoded_values) ==
    IF fields = <<>> THEN Decoded(decoded_values, current_offset)
    ELSE DecodeField(fields, buf, current_offset, decoded_values,
                     decode_from(fields[1].type, buf, current_offset))

\* structure.wrap.decode_from
RecordDecodeFrom(T, buf, offset) ==
    LET made(r) == IF ~r.ok THEN r ELSE Decoded(RecordObj(T, r.val), r.n - offset)
    IN  made(DecodeFields(T.fields, buf, offset, <<>>))

\* a field with its metadata as from_json reads it: key is metadata.get("name", name),
\* default is metadata.get("default"), None when none is declared
FieldMeta(name, type, key, default) ==
    [name |-> name, type |-> type, key |-> key, default |-> default]

\* a JSON number, a JSON string as its code points; None is data.get of an absent key
\* and JSON null
JsonInt(n) == [k |-> "int", v |-> PyNat(NatFromInt(n))]
JsonStr(text) == [k |-> "str", s |-> text]

\* Int.from_json: cls(int(json_str)), and String.from_json: cls(data), where str(None)
\* is the text None
from_json(T, v) ==
    CASE T.k = "IntClass" -> IF v = None THEN Raise("TypeError: int(None)", <<>>)
                             ELSE IntNew(T, v.v)
      [] T.k = "StringClass" -> [ok |-> TRUE,
                                 val |-> StringObj(IF v = None THEN <<78, 111, 110, 101>>
                                                   ELSE v.s)]

\* the loop of structure.wrap.from_json
RECURSIVE FromJsonFields(_, _, _)
FromJsonFields(fields, data, init_data) ==
    LET v == IF fields[1].key \in DOMAIN data THEN data[fields[1].key] ELSE None
        made == from_json(fields[1].type, v)
    IN  IF fields = <<>> THEN [ok |-> TRUE, val |-> init_data]
        ELSE IF v = None /\ fields[1].default # None
        THEN FromJsonFields(Tail(fields), data, Append(init_data, fields[1].default))
        ELSE IF ~made.ok THEN made
        ELSE FromJsonFields(Tail(fields), data, Append(init_data, made.val))

\* structure.wrap.from_json
RecordFromJson(T, data) ==
    LET made(r) == IF ~r.ok THEN r ELSE [ok |-> TRUE, val |-> RecordObj(T, r.val)]
    IN  made(FromJsonFields(T.fields, data, <<>>))

(***************************************************************************)
(* The integer scenario: construct a value of an Int type, encode it,      *)
(* decode the octets.                                                      *)
(***************************************************************************)
IntClasses == {Uint, U8, U16, U32, U64, I8, I16, I32, I64}

\* 0, octet patterns whose order shows (0x12345678, 0x01, 0x0201, ..., 0x0807060504030201)
\* and the neighbours of every power of two
Magnitudes ==
    {<<>>, FromBytesLE(<<120, 86, 52, 18>>)}
    \cup {FromBytesLE(SubSeq(<<1, 2, 3, 4, 5, 6, 7, 8>>, 1, n)) : n \in 1..8}
    \cup {NatAdd(Pow2(e), NatFromInt(d)) : e \in 0..64, d \in 0..Delta}
    \cup {NatSub(Pow2(e), NatFromInt(d)) : e \in 1..64, d \in 0..Delta}

IntValues(T) == {v \in {PyInt(s, m) : s \in BOOLEAN, m \in Magnitudes} : IntInRange(T, v)}

InitInt ==
    /\ pc = "new"
    /\ cls \in IntClasses
    /\ self \in {IntObj(cls, v) : v \in IntValues(cls)}
    /\ args = None
    /\ buffer = <<>>
    /\ result = None
    /\ BYTES_DECODE_CACHE = <<>>

\* encoded = self.encode()
IntDoEncode ==
    /\ pc = "new"
    /\ LET r == encode(self)
       IN  /\ result' = r
           /\ buffer' = r.buf
           /\ pc' = IF r.ok THEN "encoded" ELSE "failed"
    /\ UNCHANGED <<BYTES_DECODE_CACHE, cls, self, args>>

\* cls.decode_from(encoded, 0)
IntDoDecode ==
    /\ pc = "encoded"
    /\ result' = IntDecodeFrom(cls, buffer, 0)
    /\ pc' = "decoded"
    /\ UNCHANGED <<BYTES_DECODE_CACHE, cls, self, args, buffer>>

NextInt == IntDoEncode \/ IntDoDecode

SpecInt == InitInt /\ [][NextInt]_vars

(***************************************************************************)
(* C1  Varint round-trip: for every v in [0, 2^64) the encoding of Uint(v) *)
(* has encode_size(v) octets, between 1 and 9, and decoding it at offset 0 *)
(* returns v and that size.                                                *)
(***************************************************************************)
C1_VarintRoundTrip ==
    cls = Uint =>
        /\ pc # "failed"
        /\ pc \in {"encoded", "decoded"} =>
              /\ Len(buffer) = IntEncodeSize(self)
              /\ Len(buffer) \in 1..9
        /\ pc = "encoded" => result.ok /\ result.n = IntEncodeSize(self)
        /\ pc = "decoded" =>
              /\ result.ok
              /\ result.val = self
              /\ result.n = IntEncodeSize(self)

\* 2^56, the first value of the nine-octet form, has come back from its octets
C1_Witness ==
    /\ cls = Uint /\ pc = "decoded"
    /\ self.v = PyNat(Pow2(56))
    /\ Len(buffer) = 9
    /\ result.ok /\ result.val = self

(***************************************************************************)
(* C2  Varint wire format: one octet v below 2^7; below 2^56 the prefix    *)
(* 256 - 2^(8-l) + (v >> 8l) with l = floor((bitlen(v) - 1) / 7), then the *)
(* low l octets of v, little-endian; from 2^56 on 0xFF and the 8 octets of *)
(* v.  encode(127) = 7f, encode(128) = 80 80.                              *)
(***************************************************************************)
\* octet i (from 0) of the digit sequence a
C2_OctetOf(a, i) ==
    LET d(j) == IF 8 * i + j <= Len(a) THEN a[8 * i + j] ELSE 0
    IN  d(1) + 2 * d(2) + 4 * d(3) + 8 * d(4) + 16 * d(5) + 32 * d(6) + 64 * d(7) + 128 * d(8)

C2_Expected(v) ==
    IF Len(v) <= 7 THEN <<C2_OctetOf(v, 0)>>
    ELSE IF Len(v) <= 56
    THEN LET ll == (Len(v) - 1) \div 7
         IN  <<256 - 2 ^ (8 - ll) + C2_OctetOf(v, ll)>> \o [i \in 1..ll |-> C2_OctetOf(v, i - 1)]
    ELSE <<255>> \o [i \in 1..8 |-> C2_OctetOf(v, i - 1)]

C2_VarintWireFormat ==
    (cls = Uint /\ pc = "encoded") =>
        /\ buffer = C2_Expected(self.v.mag)
        /\ self.v.mag = NatFromInt(127) => buffer = <<127>>
        /\ self.v.mag = NatFromInt(128) => buffer = <<128, 128>>

\* 2^14, where l steps from 1 to 2, is encoded as c0 00 40
C2_Witness ==
    /\ cls = Uint /\ pc = "encoded"
    /\ self.v.mag = Pow2(14)
    /\ buffer = <<192, 0, 64>>

(***************************************************************************)
(* C3  Fixed-width integers: U{N} and I{N} encode to exactly N/8 octets,   *)
(* the little-endian digits of v mod 2^N (two's complement when negative), *)
(* and decoding them returns v and N/8.  U32(0x12345678) is 78 56 34 12,   *)
(* I8(-1) is ff.                                                           *)
(***************************************************************************)
\* the N binary digits of v mod 2^N: a negative v is the complement of |v| - 1
C3_Digits(v, n) ==
    IF ~v.neg THEN [i \in 1..n |-> IF i <= Len(v.mag) THEN v.mag[i] ELSE 0]
    ELSE LET m == NatSub(v.mag, Pow2(0))
         IN  [i \in 1..n |-> 1 - (IF i <= Len(m) THEN m[i] ELSE 0)]

C3_Expected(v, bytes) ==
    LET d == C3_Digits(v, 8 * bytes)
    IN  [i \in 1..bytes |-> C2_OctetOf(d, i - 1)]

C3_FixedWidth ==
    cls.byte_size > 0 =>
        /\ pc # "failed"
        /\ pc \in {"encoded", "decoded"} =>
              /\ Len(buffer) = cls.byte_size
              /\ buffer = C3_Expected(self.v, cls.byte_size)
              /\ (cls = U32 /\ self.v = PyNat(FromBytesLE(<<120, 86, 52, 18>>)))
                    => buffer = <<120, 86, 52, 18>>
              /\ (cls = I8 /\ self.v = PyInt(TRUE, Pow2(0))) => buffer = <<255>>
        /\ pc = "decoded" =>
              /\ result.ok
              /\ result.val = self
              /\ result.n = cls.byte_size

\* I64(-2^63), the most negative value, has come back from 00 .. 00 80
C3_Witness ==
    /\ cls = I64 /\ pc = "decoded"
    /\ self.v = PyInt(TRUE, Pow2(63))
    /\ buffer = <<0, 0, 0, 0, 0, 0, 0, 128>>
    /\ result.ok /\ result.val = self

(***************************************************************************)
(* C28  Varint payload length: for 2^7 <= v < 2^56 the encoder of Uint     *)
(* emits, after the prefix octet, floor((bitlen(v) - 1) / 7) payload       *)
(* octets.  As stated, that number is the smallest l in 1..7 with          *)
(* v < 2^(7 + 8 l); as amended, the smallest l in 1..7 with                *)
(* v < 2^(7 + 7 l).                                                        *)
(***************************************************************************)
C28_InRange == cls = Uint /\ pc = "encoded" /\ Len(self.v.mag) >= 8 /\ Len(self.v.mag) <= 56

\* the smallest l in 1..7 with v < 2^(7 + step * l)
C28_Smallest(v, step) ==
    CHOOSE e \in 1..7 : /\ NatLT(v, Pow2(7 + step * e))
                        /\ \A d \in 1..(e - 1) : ~NatLT(v, Pow2(7 + step * d))

C28_PayloadLengthAsStated ==
    C28_InRange =>
        /\ Len(buffer) - 1 = (Len(self.v.mag) - 1) \div 7
        /\ Len(buffer) - 1 = C28_Smallest(self.v.mag, 8)

C28_PayloadLength ==
    C28_InRange =>
        /\ Len(buffer) - 1 = (Len(self.v.mag) - 1) \div 7
        /\ Len(buffer) - 1 = C28_Smallest(self.v.mag, 7)

\* 2^21, the least number of three payload octets, is encoded as e0 00 00 20
C28_Witness ==
    /\ C28_InRange
    /\ self.v.mag = Pow2(21)
    /\ buffer = <<224, 0, 0, 32>>

(***************************************************************************)
(* The Option scenario: construct Option[T]() or Option[T](x), set it any  *)
(* number of times, encode it, decode the octets.  args is the argument of *)
(* the last set.                                                           *)
(***************************************************************************)
InitOption ==
    /\ pc = "new"
    /\ \E T \in {U8, U16, U32} :
          /\ cls = OptionClass(T)
          /\ self \in {OptionObj(cls, Null)}
                      \cup {OptionObj(cls, IntObj(T, v)) : v \in IntValues(T)}
    /\ args = None
    /\ buffer = <<>>
    /\ result = None
    /\ BYTES_DECODE_CACHE = <<>>

\* encoded = self.encode()
OptionDoEncode ==
    /\ pc = "new"
    /\ LET r == OptionEncode(self)
       IN  /\ result' = r
           /\ buffer' = r.buf
           /\ pc' = IF r.ok THEN "encoded" ELSE "failed"
    /\ UNCHANGED <<BYTES_DECODE_CACHE, cls, self, args>>

\* cls.decode_from(encoded, 0)
OptionDoDecode ==
    /\ pc = "encoded"
    /\ result' = OptionDecodeFrom(cls, buffer, 0)
    /\ pc' = "decoded"
    /\ UNCHANGED <<BYTES_DECODE_CACHE, cls, self, args, buffer>>

\* self.set(value), for a payload of the type, Null or None
OptionDoSet ==
    /\ pc = "new"
    /\ \E value \in {None, Null} \cup {IntObj(cls.opt_types[1], v) : v \in IntValues(cls.opt_types[1])} :
           /\ self' = OptionSet(self, value)
           /\ args' = [value |-> value]
    /\ UNCHANGED <<BYTES_DECODE_CACHE, pc, cls, buffer, result>>

NextOption == OptionDoEncode \/ OptionDoDecode \/ OptionDoSet

SpecOption == InitOption /\ [][NextOption]_vars

DictClasses == {DictClass(U16, U8), DictClass(StringClass, U8)}

U16Of(n) == IntObj(U16, PyNat(NatFromInt(n)))
U8Of(n) == IntObj(U8, PyNat(NatFromInt(n)))

\* what a caller may offer: two keys of the type, 1 and 256 (octets 01 00 and 00 01) or
\* "b" and "aa", and a key of the other kind; a value of the type and one that is not
OfferedKeys(K) == IF K = U16 THEN {U16Of(1), U16Of(2 ^ 8), StringObj(<<97>>)}
                  ELSE {StringObj(<<98>>), StringObj(<<97, 97>>), U8Of(1)}
OfferedValues == {U8Of(1), StringObj(<<97>>)}

\* the mappings offered to update and |=: their items in order, the keys distinct
OfferedMappings(K) ==
    {m \in UNION {[1..n -> {Item(key, value) : key \in OfferedKeys(K),
                                                value \in OfferedValues}] :
                      n \in 1..MaxOther} :
        \A i, j \in 1..Len(m) : i # j => m[i].key # m[j].key}

InitDict ==
    /\ pc = "new"
    /\ cls \in DictClasses
    /\ self = DictObj(cls)
    /\ args = None
    /\ buffer = <<>>
    /\ result = None
    /\ BYTES_DECODE_CACHE = <<>>

\* self[key] = value
DictDoSetItem ==
    /\ Len(self.items) < MaxEntries
    /\ \E key \in OfferedKeys(cls.key_type), value \in OfferedValues :
          /\ result' = DictSetItem(self, key, value)
          /\ args' = <<Item(key, value)>>
    /\ self' = result'.self
    /\ pc' = "setitem"
    /\ buffer' = <<>>
    /\ UNCHANGED <<BYTES_DECODE_CACHE, cls>>

\* self.update(other)
DictDoUpdate ==
    /\ \E other \in OfferedMappings(cls.key_type) :
          /\ Len(self.items) + Len(other) <= MaxEntries
          /\ result' = DictUpdate(self, other)
          /\ args' = other
    /\ self' = result'.self
    /\ pc' = "update"
    /\ buffer' = <<>>
    /\ UNCHANGED <<BYTES_DECODE_CACHE, cls>>

\* self.setdefault(key, default)
DictDoSetDefault ==
    /\ Len(self.items) < MaxEntries
    /\ \E key \in OfferedKeys(cls.key_type), default \in OfferedValues :
          /\ result' = DictSetDefault(self, key, default)
          /\ args' = <<Item(key, default)>>
    /\ self' = result'.self
    /\ pc' = "setdefault"
    /\ buffer' = <<>>
    /\ UNCHANGED <<BYTES_DECODE_CACHE, cls>>

\* self |= other
DictDoIOr ==
    /\ \E other \in OfferedMappings(cls.key_type) :
          /\ Len(self.items) + Len(other) <= MaxEntries
          /\ result' = DictIOr(self, other)
          /\ args' = other
    /\ self' = result'.self
    /\ pc' = "ior"
    /\ buffer' = <<>>
    /\ UNCHANGED <<BYTES_DECODE_CACHE, cls>>

\* del self[key], self.pop(key), self.popitem(), self.clear()
DictDoRemove ==
    /\ \E method \in {"__delitem__", "pop", "popitem", "clear"},
          key \in OfferedKeys(cls.key_type) :
          result' = DictRemove(self, method, key)
    /\ self' = result'.self
    /\ args' = <<>>
    /\ pc' = "remove"
    /\ buffer' = <<>>
    /\ UNCHANGED <<BYTES_DECODE_CACHE, cls>>

\* encoded = self.encode()
DictDoEncode ==
    /\ pc # "encode"
    /\ result' = DictEncode(self)
    /\ self' = result'.self
    /\ buffer' = result'.buf
    /\ args' = <<>>
    /\ pc' = "encode"
    /\ UNCHANGED <<BYTES_DECODE_CACHE, cls>>

NextDict ==
    \/ DictDoSetItem \/ DictDoUpdate \/ DictDoSetDefault \/ DictDoIOr
    \/ DictDoRemove \/ DictDoEncode

SpecDict == InitDict /\ [][NextDict]_vars

(***************************************************************************)
(* C5  Canonical mapping encoding: encode() of a Dictionary[K, V] emits    *)
(* varint(n), then the n entries E(k) || E(v) in strictly ascending        *)
(* lexicographic order of the octets E(k).                                 *)
(***************************************************************************)
C5_InstanceOf(x, T) ==
    IF T.k = "IntClass" THEN x.k = "Int" /\ x.byte_size = T.byte_size /\ x.signed = T.signed
    ELSE x.k = "String"

C5_WellTyped(d, T) ==
    \A i \in 1..Len(d.items) :
        /\ C5_InstanceOf(d.items[i].key, T.key_type)
        /\ C5_InstanceOf(d.items[i].value, T.value_type)

C5_E(x) == encode(x).buf

RECURSIVE C5_Entries(_)
C5_Entries(items) ==
    IF items = <<>> THEN <<>>
    ELSE C5_E(items[1].key) \o C5_E(items[1].value) \o C5_Entries(Tail(items))

C5_Orders(items) ==
    {[i \in 1..Len(items) |-> items[p[i]]] :
        p \in {q \in [1..Len(items) -> 1..Len(items)] :
                  \A i, j \in 1..Len(items) : i # j => q[i] # q[j]}}

C5_CanonicalEncoding ==
    (pc = "encode" /\ C5_WellTyped(self, cls)) =>
        /\ result.ok
        /\ \E order \in C5_Orders(self.items) :
              /\ \A i \in 1..(Len(order) - 1) :
                    LexLT(C5_E(order[i].key), C5_E(order[i + 1].key))
              /\ buffer = C2_Expected(NatFromInt(Len(order))) \o C5_Entries(order)

(***************************************************************************)
(* C7  Typed mapping invariant: after construction and any sequence of     *)
(* d[k] = v, update, setdefault and |=, every key is an instance of K and  *)
(* every value an instance of V; a mutation that offers a non-K key or a   *)
(* non-V value fails with a type error.                                    *)
(***************************************************************************)
C7_TypedInvariant ==
    /\ \A i \in 1..Len(self.items) :
          /\ C5_InstanceOf(self.items[i].key, cls.key_type)
          /\ C5_InstanceOf(self.items[i].value, cls.value_type)
    /\ (/\ pc \in {"setitem", "update", "setdefault", "ior"}
        /\ \E i \in 1..Len(args) :
              \/ ~C5_InstanceOf(args[i].key, cls.key_type)
              \/ ~C5_InstanceOf(args[i].value, cls.value_type))
       => (~result.ok /\ result.err = "TypeError")

(***************************************************************************)
(* C20  The sorted-keys cache of a Dictionary is unobservable: in every    *)
(* sequence of d[k] = v, update, del d[k], pop, popitem, clear and         *)
(* setdefault with encode calls between them, each encode() succeeds and   *)
(* returns the encoding of the current contents, as a Dictionary without   *)
(* a cache would.                                                          *)
(***************************************************************************)
C20_CacheUnobservable ==
    pc = "encode" =>
        /\ result.ok
        /\ buffer = DictEncode([self EXCEPT !.dirty = TRUE, !.sorted_keys_cache = None]).buf

(***************************************************************************)
(* C27  Mapping determinism: a Dictionary encodes to the octets that a     *)
(* Dictionary of the same type just built from the same entries, inserted  *)
(* in the opposite order, encodes to, whatever calls inserted or overwrote *)
(* its entries and whatever encode calls were made in between.             *)
(***************************************************************************)
C27_Other ==
    [self EXCEPT !.items = [i \in 1..Len(self.items) |-> self.items[Len(self.items) + 1 - i]],
                 !.dirty = TRUE, !.sorted_keys_cache = None]

C27_Determinism ==
    pc = "encode" =>
        /\ result.ok = DictEncode(C27_Other).ok
        /\ result.ok => buffer = DictEncode(C27_Other).buf

(***************************************************************************)
(* The mapping decode scenario: a buffer that declares count entries and   *)
(* carries the entries of args.entries, in that order, is handed to        *)
(* Dictionary.decode_from.                                                 *)
(***************************************************************************)
WireKeys(K) == IF K = U16 THEN {U16Of(1), U16Of(2), U16Of(2 ^ 8)}
               ELSE {StringObj(<<97>>), StringObj(<<98>>), StringObj(<<97, 97>>)}

WireEntries(K) ==
    UNION {[1..n -> {Item(key, value) : key \in WireKeys(K), value \in {U8Of(1), U8Of(2)}}] :
              n \in 0..MaxWire}

RECURSIVE WireOctets(_)
WireOctets(entries) ==
    IF entries = <<>> THEN <<>>
    ELSE encode(entries[1].key).buf \o encode(entries[1].value).buf
         \o WireOctets(Tail(entries))

InitDictDecode ==
    /\ pc = "wire"
    /\ cls \in DictClasses
    /\ self = None
    /\ \E count \in 0..MaxWire, entries \in WireEntries(cls.key_type) :
          /\ args = [count |-> count, entries |-> entries]
          /\ buffer = encode(UintOf(count)).buf \o WireOctets(entries)
    /\ result = None
    /\ BYTES_DECODE_CACHE = <<>>

\* cls.decode_from(buffer, 0)
DictDoDecode ==
    /\ pc = "wire"
    /\ result' = DictDecodeFrom(cls, buffer, 0)
    /\ pc' = "decoded"
    /\ UNCHANGED <<BYTES_DECODE_CACHE, cls, self, args, buffer>>

SpecDictDecode == InitDictDecode /\ [][DictDoDecode]_vars

(***************************************************************************)
(* C6  Mapping decode key order: decode_from fails with the key order      *)
(* error, and returns no value, whenever a decoded key is not strictly     *)
(* greater than the key decoded before it ("b" then "a", or two equal      *)
(* keys); a successful decode of a declared count n yields exactly n       *)
(* distinct keys.                                                          *)
(***************************************************************************)
\* key a is strictly greater than key b: by value for integers, by code point for strings
C6_Greater(a, b) ==
    IF a.k = "Int" THEN NatLT(b.v.mag, a.v.mag) ELSE LexLT(b.s, a.s)

\* the keys decode_from reads: those of the first count entries carried
C6_Read == SubSeq(args.entries, 1, Min(args.count, Len(args.entries)))

C6_DecodeKeyOrder ==
    pc = "decoded" =>
        /\ (\E i \in 2..Len(C6_Read) : ~C6_Greater(C6_Read[i].key, C6_Read[i - 1].key))
              => (/\ ~result.ok
                  /\ result.err = "ValueError: ascending order"
                  /\ "val" \notin DOMAIN result)
        /\ result.ok =>
              /\ Len(result.val.items) = args.count
              /\ \A i, j \in 1..Len(result.val.items) :
                    i # j => result.val.items[i].key # result.val.items[j].key
        /\ (/\ args.count <= Len(args.entries)
            /\ \A i \in 2..Len(C6_Read) : C6_Greater(C6_Read[i].key, C6_Read[i - 1].key))
              => (/\ result.ok
                  /\ result.val.items = C6_Read)

\* "b" then "a" has been refused, and so has "a" twice
C6_Witness ==
    /\ pc = "decoded"
    /\ args.count = 2
    /\ Keys(args.entries) \in {<<StringObj(<<98>>), StringObj(<<97>>)>>,
                               <<StringObj(<<97>>), StringObj(<<97>>)>>}
    /\ ~result.ok
    /\ result.err = "ValueError: ascending order"

(***************************************************************************)
(* The record scenario: a record whose fields hold values of their         *)
(* declared types is written into a buffer at an offset and read back from *)
(* there.                                                                  *)
(***************************************************************************)
RecordClasses ==
    {RecordClass(<<>>),
     RecordClass(<<Field("a", Uint)>>),
     RecordClass(<<Field("a", U16), Field("b", StringClass)>>),
     RecordClass(<<Field("a", StringClass), Field("b", Uint), Field("c", I8)>>),
     RecordClass(<<Field("a", BitsVar("msb")), Field("b", U16), Field("c", StringClass)>>)}

\* some values of a field type: one to three octets of Uint, the empty string, a
\* two-octet code point
FieldValues(T) ==
    CASE T = Uint -> {UintOf(0), UintOf(128), UintOf(2 ^ 14)}
      [] T = U16 -> {U16Of(1), U16Of(2 ^ 8)}
      [] T = I8 -> {IntObj(I8, PyInt(TRUE, NatFromInt(1)))}
      [] T = StringClass -> {StringObj(<<>>), StringObj(<<97>>), StringObj(<<233, 98>>)}
      [] T.k = "BitsClass" -> {BitsObj(T, <<>>), BitsObj(T, <<TRUE, FALSE, TRUE>>)}

Records(T) ==
    {RecordObj(T, values) :
        values \in {vs \in [1..Len(T.fields) -> UNION {FieldValues(T.fields[i].type) :
                                                          i \in 1..Len(T.fields)}] :
                       \A i \in 1..Len(T.fields) : vs[i] \in FieldValues(T.fields[i].type)}}

\* the octets of a buffer the caller supplies
Filler(n) == [i \in 1..n |-> 170]

InitRecord ==
    /\ pc = "new"
    /\ cls \in RecordClasses
    /\ self \in Records(cls)
    /\ args = None
    /\ buffer = <<>>
    /\ result = None
    /\ BYTES_DECODE_CACHE = <<>>

\* buffer = bytearray(offset + self.encode_size()); self.encode_into(buffer, offset)
RecordDoEncodeInto ==
    /\ pc = "new"
    /\ \E offset \in 0..MaxOffset :
          LET r == RecordEncodeInto(self, Filler(offset + RecordEncodeSize(self)), offset)
          IN  /\ args' = [offset |-> offset]
              /\ result' = r
              /\ buffer' = r.buf
              /\ pc' = IF r.ok THEN "encoded" ELSE "failed"
    /\ UNCHANGED <<BYTES_DECODE_CACHE, cls, self>>

\* cls.decode_from(buffer, offset)
RecordDoDecode ==
    /\ pc = "encoded"
    /\ result' = RecordDecodeFrom(cls, buffer, args.offset)
    /\ pc' = "decoded"
    /\ UNCHANGED <<BYTES_DECODE_CACHE, cls, self, args, buffer>>

NextRecord == RecordDoEncodeInto \/ RecordDoDecode

SpecRecord == InitRecord /\ [][NextRecord]_vars

(***************************************************************************)
(* C8  Record wire format: encode_into writes E(f_0) || ... || E(f_{k-1})  *)
(* with no framing and returns the sum of the field sizes, encode_size is  *)
(* that sum, decode_from reads field i with its declared type at the       *)
(* offset plus the sizes of the fields before it and returns the record    *)
(* and the octets consumed: decode(encode(r)) = r.                         *)
(***************************************************************************)
\* E(f): the octets of a field value on its own
C8_E(x) == encode(x).buf

\* E(f_1) || ... || E(f_i)
RECURSIVE C8_Concat(_, _)
C8_Concat(values, i) ==
    IF i = 0 THEN <<>> ELSE C8_Concat(values, i - 1) \o C8_E(values[i])

C8_RecordWireFormat ==
    LET k == Len(self.values)
        total == Len(C8_Concat(self.values, k))
    IN  /\ pc # "failed"
        /\ pc \in {"encoded", "decoded"} =>
              /\ buffer = Filler(args.offset) \o C8_Concat(self.values, k)
              /\ RecordEncodeSize(self) = total
        /\ pc = "encoded" => result.ok /\ result.n = total
        /\ pc = "decoded" =>
              /\ result.ok
              /\ result.val = self
              /\ result.n = total
              /\ \A i \in 1..k :
                    decode_from(cls.fields[i].type, buffer,
                                args.offset + Len(C8_Concat(self.values, i - 1)))
                        = Decoded(self.values[i], Len(C8_E(self.values[i])))

\* a three-field record written at offset 2 has come back: "a", 128, -1 is 01 61 80 80 ff
C8_Witness ==
    /\ pc = "decoded"
    /\ args.offset = 2
    /\ self.values = <<StringObj(<<97>>), UintOf(128), IntObj(I8, PyInt(TRUE, NatFromInt(1)))>>
    /\ buffer = <<170, 170, 1, 97, 128, 128, 255>>
    /\ result.ok /\ result.val = self /\ result.n = 5

(***************************************************************************)
(* bits.py: append, insert and extend.  An element a caller offers is a    *)
(* bool or, as the int 1, not one; the outcome carries the vector as the   *)
(* call leaves it.                                                         *)
(***************************************************************************)
Bool(b) == [k |-> "bool", b |-> b]
NotBool == [k |-> "int", v |-> 1]

\* self._validate_self() after the list was changed
BitsValidated(x) ==
    IF LengthValid(x, Len(x.bits)) THEN Updated(x)
    ELSE [ok |-> FALSE, err |-> "ValueError: length", self |-> x]

\* Bits.append
BitsAppend(x, v) ==
    IF v.k # "bool" THEN TypeError(x)
    ELSE BitsValidated([x EXCEPT !.bits = Append(x.bits, v.b)])

\* Bits.insert: list.insert puts v before the place i, counted from the end when i < 0,
\* within the ends of the list
BitsInsert(x, i, v) ==
    LET at == IF i < 0 THEN Max(Len(x.bits) + i, 0) ELSE Min(i, Len(x.bits))
    IN  IF v.k # "bool" THEN TypeError(x)
        ELSE BitsValidated([x EXCEPT !.bits = SubSeq(x.bits, 1, at) \o <<v.b>>
                                              \o SubSeq(x.bits, at + 1, Len(x.bits))])

\* Bits.extend
BitsExtend(x, seq) ==
    IF \E j \in 1..Len(seq) : seq[j].k # "bool" THEN TypeError(x)
    ELSE BitsValidated([x EXCEPT !.bits = x.bits \o [j \in 1..Len(seq) |-> seq[j].b]])

(***************************************************************************)
(* The bit vector scenario: a value of a Bits type is encoded and the      *)
(* octets are decoded.                                                     *)
(***************************************************************************)
Orders == {"msb", "lsb"}

\* Bits[order], and Bits[(n, order)] for n = 0 .. MaxBits
BitsClasses ==
    {BitsVar(order) : order \in Orders}
    \cup {BitsFixed(n, order) : n \in 0..MaxBits, order \in Orders}

\* the values of a type among every vector of at most MaxBits bits and three whose
\* count takes a two-octet prefix
BitsValues(T) ==
    {BitsNew(T, bits).val :
        bits \in {b \in UNION {[1..n -> BOOLEAN] : n \in 0..MaxBits}
                          \cup {[i \in 1..n |-> i % 3 = 1] : n \in {127, 128, 129}} :
                     BitsNew(T, b).ok}}

InitBits ==
    /\ pc = "new"
    /\ cls \in BitsClasses
    /\ self \in BitsValues(cls)
    /\ args = None
    /\ buffer = <<>>
    /\ result = None
    /\ BYTES_DECODE_CACHE = <<>>

\* encoded = self.encode()
BitsDoEncode ==
    /\ pc = "new"
    /\ LET r == encode(self)
       IN  /\ result' = r
           /\ buffer' = r.buf
           /\ pc' = IF r.ok THEN "encoded" ELSE "failed"
    /\ UNCHANGED <<BYTES_DECODE_CACHE, cls, self, args>>

\* cls.decode_from(encoded, 0)
BitsDoDecode ==
    /\ pc = "encoded"
    /\ result' = BitsDecodeFrom(cls, buffer, 0)
    /\ pc' = "decoded"
    /\ UNCHANGED <<BYTES_DECODE_CACHE, cls, self, args, buffer>>

\* json_str = self.to_json()
BitsDoToJson ==
    /\ pc = "new"
    /\ args' = [json_str |-> BitsToJson(self)]
    /\ pc' = "json"
    /\ UNCHANGED <<BYTES_DECODE_CACHE, cls, self, buffer, result>>

\* cls.from_json(json_str), and the same on the string after 0x
BitsDoFromJson ==
    /\ pc = "json"
    /\ \E prefix \in {<<>>, <<"0", "x">>} :
           /\ args' = [json_str |-> prefix \o args.json_str]
           /\ result' = BitsFromJson(cls, prefix \o args.json_str)
    /\ pc' = "parsed"
    /\ UNCHANGED <<BYTES_DECODE_CACHE, cls, self, buffer>>

\* self.append(v), self.insert(i, v), self.extend(seq): args is the call and the vector
\* before it
BitsDoMutate ==
    /\ pc \in {"new", "mutated"}
    /\ Len(self.bits) <= MaxGrown
    /\ \E v \in {Bool(TRUE), Bool(FALSE), NotBool}, i \in {-1, 0, 1, MaxGrown + 2},
          seq \in {<<>>, <<Bool(TRUE), Bool(FALSE)>>, <<Bool(TRUE), NotBool>>} :
          \E call \in {[method |-> "append", v |-> v, before |-> self.bits],
                       [method |-> "insert", i |-> i, v |-> v, before |-> self.bits],
                       [method |-> "extend", seq |-> seq, before |-> self.bits]} :
              /\ args' = call
              /\ result' = CASE call.method = "append" -> BitsAppend(self, v)
                             [] call.method = "insert" -> BitsInsert(self, i, v)
                             [] call.method = "extend" -> BitsExtend(self, seq)
    /\ self' = result'.self
    /\ pc' = "mutated"
    /\ UNCHANGED <<BYTES_DECODE_CACHE, cls, buffer>>

NextBits ==
    \/ BitsDoEncode \/ BitsDoDecode \/ BitsDoToJson \/ BitsDoFromJson \/ BitsDoMutate

SpecBits == InitBits /\ [][NextBits]_vars

(***************************************************************************)
(* C9  Bit packing: bit i of the vector is stored at position 7 - (i mod   *)
(* 8) of payload octet floor(i/8) with msb order and at position i mod 8   *)
(* with lsb order; the payload has ceil(n/8) octets and the unused         *)
(* positions of the last octet are 0.  [T,F,T,F] is a0 (msb) and 05 (lsb); *)
(* one true bit at index i of 8 is the octet 1 << i (lsb), 0x80 >> i       *)
(* (msb).                                                                  *)
(***************************************************************************)
\* the number of payload octets of n bits
C9_Octets(n) == (n + 7) \div 8

\* the payload: the octets after the bit count, if the encoding carries one
C9_Payload == SubSeq(buffer, Len(buffer) - C9_Octets(Len(self.bits)) + 1, Len(buffer))

\* the bit at position p of an octet
C9_BitAt(octet, p) == (octet \div (2 ^ p)) % 2 = 1

C9_Position(i) == IF cls.order = "msb" THEN 7 - (i % 8) ELSE i % 8

\* TRUE for a vector of eight bits of which only the one at index i is true
C9_WalkingOne(bits, i) == Len(bits) = 8 /\ \A j \in 0..7 : bits[j + 1] = (j = i)

C9_BitPacking ==
    LET n == Len(self.bits)
    IN  /\ pc # "failed"
        /\ pc \in {"encoded", "decoded"} =>
              /\ Len(buffer) >= C9_Octets(n)
              /\ (cls.min_length = cls.max_length /\ n > 0) => Len(buffer) = C9_Octets(n)
              /\ \A i \in 0..(n - 1) :
                    C9_BitAt(C9_Payload[(i \div 8) + 1], C9_Position(i)) = self.bits[i + 1]
              /\ \A i \in n..(8 * C9_Octets(n) - 1) :
                    ~C9_BitAt(C9_Payload[C9_Octets(n)], C9_Position(i))
              /\ self.bits = <<TRUE, FALSE, TRUE, FALSE>> =>
                    C9_Payload = IF cls.order = "msb" THEN <<160>> ELSE <<5>>
              /\ \A i \in 0..7 :
                    C9_WalkingOne(self.bits, i) =>
                        C9_Payload = IF cls.order = "msb" THEN <<128 \div (2 ^ i)>>
                                     ELSE <<2 ^ i>>

\* nine bits in msb order, the first and the last true, are 80 80
C9_Witness ==
    /\ pc = "encoded"
    /\ cls = BitsFixed(9, "msb")
    /\ self.bits = <<TRUE, FALSE, FALSE, FALSE, FALSE, FALSE, FALSE, FALSE, TRUE>>
    /\ buffer = <<128, 128>>

(***************************************************************************)
(* C10  Bits binary round trip: for every Bits type and value v of it,     *)
(* encode_size(v) = len(encode(v)) and decode_from(encode(v), 0) is v and  *)
(* encode_size(v); the variable form starts with the bit count, not the    *)
(* octet count, as a varint.  Bits["lsb"]([T,F,T,F]) is 04 05.             *)
(***************************************************************************)
\* the varint of the bit count
C10_Count == C2_Expected(NatFromInt(Len(self.bits)))

C10_BitsRoundTrip ==
    /\ pc # "failed"
    /\ pc \in {"encoded", "decoded"} =>
          /\ Len(buffer) = BitsEncodeSize(self)
          /\ cls \in {BitsVar(order) : order \in Orders} =>
                /\ Len(buffer) = Len(C10_Count) + (Len(self.bits) + 7) \div 8
                /\ SubSeq(buffer, 1, Len(C10_Count)) = C10_Count
          /\ (cls = BitsVar("lsb") /\ self.bits = <<TRUE, FALSE, TRUE, FALSE>>) =>
                buffer = <<4, 5>>
    /\ pc = "encoded" => result.ok /\ result.n = BitsEncodeSize(self)
    /\ pc = "decoded" =>
          /\ result.ok
          /\ result.val = self
          /\ result.n = BitsEncodeSize(self)

\* 129 bits of variable length have come back from the prefix 80 81 and 17 octets
C10_Witness ==
    /\ pc = "decoded"
    /\ cls = BitsVar("msb")
    /\ Len(self.bits) = 129
    /\ SubSeq(buffer, 1, 2) = <<128, 129>>
    /\ Len(buffer) = 19
    /\ result.ok /\ result.val = self /\ result.n = 19

(***************************************************************************)
(* C22  Bits JSON round-trip: for every Bits value v, of a fixed or a      *)
(* variable length, of either order and of any bit count, reading the hex  *)
(* string v.to_json(), with or without a leading 0x, gives a value equal   *)
(* to v.                                                                   *)
(***************************************************************************)
C22_JsonRoundTrip ==
    pc = "parsed" => result.ok /\ result.val = self

(***************************************************************************)
(* C29  Bits mutation keeps the value valid: after the construction and    *)
(* any calls of append, insert and extend, failed ones included, the       *)
(* vector holds only booleans and its length is within the bounds of its   *)
(* type; a call that offers an element that is no bool, or that would      *)
(* leave the bounds, raises and leaves the vector as it was.               *)
(***************************************************************************)
C29_Offered ==
    CASE args.method = "extend" -> args.seq
      [] OTHER -> <<args.v>>

C29_MutationValid ==
    pc = "mutated" =>
        /\ \A j \in 1..Len(self.bits) : self.bits[j] \in BOOLEAN
        /\ LengthValid(cls, Len(self.bits))
        /\ ~result.ok => self.bits = args.before
        /\ (\/ \E j \in 1..Len(C29_Offered) : C29_Offered[j] = NotBool
            \/ ~LengthValid(cls, Len(args.before) + Len(C29_Offered))) => ~result.ok

(***************************************************************************)
(* The wire scenario: a buffer of args.offset filler octets, then the      *)
(* first octets of the length prefix of args.declared and, when the prefix *)
(* is whole, the octets args.payload, is handed to decode_from of a        *)
(* length-prefixed kind or of Uint at args.offset; the fixed-width integer *)
(* types are handed the filler and the payload.  A value that was decoded  *)
(* is encoded again and decoded from its own encoding.                     *)
(***************************************************************************)
\* The lengths a prefix declares are small ones, the ones around the two-octet prefix,
\* the limits of constants.py and their successors, and 2 ** 64 - 1.  The octets that
\* follow are "xyz", e-acute and x, the euro sign, an emoji, octets that are not UTF-8,
\* each cut short, 01 .. 09 and 126 to 130 letters.
InitWire ==
    LET lengths ==
            {NatFromInt(n) : n \in (0..(MaxPayload + 1)) \cup {127, 128, 129}
                                   \cup {MAX_STRING_BYTES, MAX_STRING_BYTES + 1,
                                         MAX_BITS_LENGTH, MAX_BITS_LENGTH + 1,
                                         MAX_BYTEARRAY_SIZE, MAX_BYTEARRAY_SIZE + 1}}
            \cup {NatSub(Pow2(64), NatFromInt(1))}
        payloads ==
            {SubSeq(text, 1, Min(n, Len(text))) :
                text \in {<<120, 121, 122>>, <<195, 169, 120>>, <<226, 130, 172>>,
                          <<240, 159, 152, 128>>, <<255, 254, 0>>},
                n \in 0..(MaxPayload + 1)}
            \cup {[i \in 1..n |-> i] : n \in 4..9}
            \cup {[i \in 1..n |-> 97 + (i % 26)] : n \in 126..130}
        prefixed(m, size) ==
            {[declared |-> m, prefix |-> SubSeq(encode(IntObj(Uint, PyNat(m))).buf, 1, n),
              whole |-> n = size, payload |-> IF n = size THEN q ELSE <<>>, offset |-> o] :
                n \in 0..size, q \in payloads, o \in 0..MaxOffset}
    IN  /\ pc = "wire"
        /\ cls \in {ByteArrayClass, StringClass, BitsVar("msb"), BitsVar("lsb")}
                   \cup IntClasses
        /\ self = None
        /\ IF cls \in IntClasses \ {Uint}
           THEN args \in {[declared |-> <<>>, prefix |-> <<>>, whole |-> TRUE,
                           payload |-> q, offset |-> o] :
                             q \in payloads, o \in 0..MaxOffset}
           ELSE args \in UNION {prefixed(m, IntEncodeSize(IntObj(Uint, PyNat(m)))) :
                                   m \in lengths}
        /\ buffer = Filler(args.offset) \o args.prefix \o args.payload
        /\ result = None
        /\ BYTES_DECODE_CACHE = <<>>

\* cls.decode_from(buffer, offset), and cls.decode_from(encoded, 0) on the encoding of the
\* value that came out
WireDoDecode ==
    /\ pc \in {"wire", "encoded"}
    /\ result' = decode_from(cls, buffer, IF pc = "wire" THEN args.offset ELSE 0)
    /\ pc' = IF pc = "wire" THEN "decoded" ELSE "redecoded"
    /\ UNCHANGED <<BYTES_DECODE_CACHE, cls, self, args, buffer>>

\* encoded = value.encode() on the value that decode_from returned
WireDoEncode ==
    /\ pc = "decoded"
    /\ result.ok
    /\ self' = result.val
    /\ LET r == encode(result.val)
       IN  /\ result' = r
           /\ buffer' = r.buf
           /\ pc' = IF r.ok THEN "encoded" ELSE "failed"
    /\ UNCHANGED <<BYTES_DECODE_CACHE, cls, args>>

NextWire == WireDoDecode \/ WireDoEncode

SpecWire == InitWire /\ [][NextWire]_vars

(***************************************************************************)
(* C11  ByteArray decode guards: ByteArray.decode_from reads a varint      *)
(* length L; it fails with limit-exceeded when L > MAX_BYTEARRAY_SIZE,     *)
(* whatever remains in the buffer, with short-buffer when fewer than L     *)
(* octets remain after the prefix, when the prefix is cut short and when   *)
(* no octet remains at offset, and otherwise returns the L octets with     *)
(* bytes_read = len(varint(L)) + L.                                        *)
(***************************************************************************)
C11_ShortBuffer(r) ==
    ~r.ok /\ r.err \in {"ValueError: buffer too small", "ValueError: insufficient buffer"}

C11_LimitExceeded(r) == ~r.ok /\ r.err = "ValueError: exceeds maximum"

C11_ByteArrayDecodeGuards ==
    (pc = "decoded" /\ cls = ByteArrayClass) =>
        IF ~args.whole THEN C11_ShortBuffer(result)
        ELSE IF NatLT(NatFromInt(MAX_BYTEARRAY_SIZE), args.declared)
        THEN C11_LimitExceeded(result)
        ELSE IF NatLT(NatFromInt(Len(args.payload)), args.declared)
        THEN C11_ShortBuffer(result)
        ELSE /\ args.prefix = C2_Expected(args.declared)
             /\ result = Decoded(ByteArrayObj(SubSeq(args.payload, 1,
                                                     NatToInt(args.declared))),
                                 Len(C2_Expected(args.declared))
                                 + NatToInt(args.declared))

\* filler, the two-octet prefix 80 80 and 128 letters at offset 2: read whole
C11_Witness ==
    /\ pc = "decoded" /\ cls = ByteArrayClass
    /\ args.declared = NatFromInt(128) /\ args.whole /\ args.offset = 2
    /\ SubSeq(buffer, 1, 4) = <<170, 170, 128, 128>>
    /\ result.ok /\ result.n = 130 /\ Len(result.val.data) = 128

(***************************************************************************)
(* C13  Bits DoS guard: variable-length Bits.decode_from fails with the    *)
(* limit-exceeded error whenever the decoded bit count is greater than     *)
(* MAX_BITS_LENGTH, whatever follows the prefix, and returns no value.     *)
(***************************************************************************)
C13_BitsLimit ==
    (/\ pc = "decoded" /\ cls \in {BitsVar("msb"), BitsVar("lsb")}
     /\ args.whole /\ NatLT(NatFromInt(MAX_BITS_LENGTH), args.declared))
    => C11_LimitExceeded(result)

(***************************************************************************)
(* C14  String decode guards: String.decode_from reads a varint m that     *)
(* counts UTF-8 octets; it fails with limit-exceeded if m is greater than  *)
(* MAX_STRING_BYTES, otherwise with short-buffer if fewer than m octets    *)
(* remain, otherwise with an encoding error if the m octets are not valid  *)
(* UTF-8, and otherwise returns the string with bytes_read =               *)
(* len(varint(m)) + m.  Decoding the encoding of a string gives the string *)
(* back.                                                                   *)
(***************************************************************************)
\* the code points that octets of the scenario spell: ASCII octets are their own code
\* points, c3 a9 is U+00E9, e2 82 ac is U+20AC, f0 9f 98 80 is U+1F600, and <<-1>>
\* stands for octets that are not UTF-8
C14_CodePoints(octets) ==
    IF \A i \in 1..Len(octets) : octets[i] < 128 THEN octets
    ELSE IF octets = <<195, 169>> THEN <<233>>
    ELSE IF octets = <<195, 169, 120>> THEN <<233, 120>>
    ELSE IF octets = <<226, 130, 172>> THEN <<8364>>
    ELSE IF octets = <<240, 159, 152, 128>> THEN <<128512>>
    ELSE <<-1>>

C14_Text == SubSeq(args.payload, 1, NatToInt(args.declared))

C15_FixedShortBuffer ==
    (/\ pc = "decoded" /\ cls \in IntClasses \ {Uint}
     /\ Len(buffer) - args.offset < cls.byte_size)
    => C11_ShortBuffer(result)

(***************************************************************************)
(* C16  Varint short buffer: Uint.decode_from fails with the short-buffer  *)
(* error whenever the buffer has no octet at offset for the tag, or fewer  *)
(* octets after the tag than the tag announces; it returns no value then.  *)
(***************************************************************************)
C16_VarintShortBuffer ==
    (pc = "decoded" /\ cls = Uint /\ ~args.whole) => C11_ShortBuffer(result)

(***************************************************************************)
(* The Bytes scenario: a process constructs a value of Bytes[1], Bytes[2]   *)
(* or Bytes[3] from at most MaxPayload octets and encodes it, or makes up   *)
(* to MaxCalls calls of Bytes.decode_from, on Bytes, Bytes[2] or Bytes[65], *)
(* at offset 0 or 1 of a buffer made of the length prefix of args.declared  *)
(* and the octets args.payload, and may clear the decode cache between      *)
(* them.  The payloads of 64 and 65 letters agree on their first 64 octets. *)
(***************************************************************************)
InitBytes ==
    /\ pc = "idle"
    /\ cls = None
    /\ self = None
    /\ args = [calls |-> 0]
    /\ buffer = <<>>
    /\ result = None
    /\ BYTES_DECODE_CACHE = <<>>

\* cls.decode_from(buffer, offset)
BytesDoDecode ==
    LET letters(n) == [i \in 1..n |-> 97 + (i % 26)]
        payloads == {<<>>, <<120, 121>>, <<120, 122>>, letters(64), letters(65),
                     [letters(65) EXCEPT ![65] = 33]}
        call(T, buf, offset, r) ==
            /\ cls' = T
            /\ buffer' = buf
            /\ result' = r.result
            /\ BYTES_DECODE_CACHE' = r.cache
    IN  /\ pc \in {"idle", "decoded", "cleared"}
        /\ args.calls < MaxCalls
        /\ \E T \in {BytesClass(0), BytesClass(2), BytesClass(65)},
              declared \in {2, 65, MAX_BYTEARRAY_SIZE + 1},
              payload \in payloads, offset \in 0..1 :
              /\ args' = [calls |-> args.calls + 1, declared |-> declared,
                          payload |-> payload, offset |-> offset]
              /\ call(T, encode(UintOf(declared)).buf \o payload, offset,
                      BytesDecodeFrom(T, BYTES_DECODE_CACHE,
                                      encode(UintOf(declared)).buf \o payload, offset))
        /\ pc' = "decoded"
        /\ UNCHANGED self

\* clear_bytes_decode_cache()
BytesDoClear ==
    /\ pc = "decoded"
    /\ BYTES_DECODE_CACHE' = <<>>
    /\ pc' = "cleared"
    /\ UNCHANGED <<cls, self, args, buffer, result>>

\* value = cls(data) for a fixed-length type: bytes.__new__, which knows no _length
BytesDoNew ==
    /\ pc = "idle"
    /\ \E T \in {BytesClass(1), BytesClass(2), BytesClass(3)},
          data \in UNION {[1..n -> {7, 170}] : n \in 0..MaxPayload} :
          /\ cls' = T
          /\ self' = BytesObj(T, data)
    /\ pc' = "new"
    /\ UNCHANGED <<BYTES_DECODE_CACHE, args, buffer, result>>

\* encoded = value.encode()
BytesDoEncode ==
    /\ pc = "new"
    /\ LET r == encode(self)
       IN  /\ result' = r
           /\ buffer' = r.buf
           /\ pc' = IF r.ok THEN "encoded" ELSE "failed"
    /\ UNCHANGED <<BYTES_DECODE_CACHE, cls, self, args>>

NextBytes == BytesDoDecode \/ BytesDoClear \/ BytesDoNew \/ BytesDoEncode

SpecBytes == InitBytes /\ [][NextBytes]_vars

(***************************************************************************)
(* C12  Variable-length Bytes decode guards: Bytes.decode_from (no fixed   *)
(* length) fails with limit-exceeded when the declared length is greater   *)
(* than MAX_BYTEARRAY_SIZE and with short-buffer when fewer octets remain  *)
(* than declared, and returns no value in either case.                     *)
(***************************************************************************)
C12_BytesDecodeGuards ==
    (pc = "decoded" /\ cls = BytesClass(0) /\ args.offset = 0) =>
        IF args.declared > MAX_BYTEARRAY_SIZE THEN C11_LimitExceeded(result)
        ELSE (Len(args.payload) < args.declared) => ~result.ok

(***************************************************************************)
(* C19  The Bytes decode cache is unobservable: in every sequence of       *)
(* Bytes.decode_from calls, with clear_bytes_decode_cache between them or  *)
(* not, each call has the outcome of a decode of the same type, buffer and *)
(* offset made with an empty cache: the same value and bytes_read, or the  *)
(* same error.                                                             *)
(***************************************************************************)
C19_CacheUnobservable ==
    pc = "decoded" => result = BytesDecodeFrom(cls, <<>>, buffer, args.offset).result

(***************************************************************************)
(* The encode_into scenario: a value of one of the kinds is written at     *)
(* args.offset into a buffer of filler octets, args.before, that holds one *)
(* octet less than offset + encode_size() octets, exactly as many, or one  *)
(* more.  A Dictionary is one that its constructor built.                  *)
(***************************************************************************)
InitEncodeInto ==
    LET letters(n) == [i \in 1..n |-> 97 + (i % 26)]
        octets == {<<>>, <<120>>, <<1, 2, 3>>, letters(127), letters(128)}
        built(T) ==
            {DictUpdate(DictObj(T), m).self :
                m \in {<<>>} \cup {o \in OfferedMappings(T.key_type) :
                                      ~\E i \in 1..Len(o) :
                                          DictInvalid(DictObj(T), o[i].key, o[i].value)}}
        values ==
            UNION {{IntObj(T, v) : v \in IntValues(T)} : T \in IntClasses}
            \cup {ByteArrayObj(data) : data \in octets}
            \cup {BytesObj(BytesClass(0), data) : data \in octets}
            \cup {BytesObj(BytesClass(2), <<1, 2>>)}
            \cup {StringObj(text) : text \in {<<>>, <<120>>, <<233, 8364>>, <<128512>>,
                                               letters(20)}}
            \cup UNION {BitsValues(T) : T \in BitsClasses}
            \cup UNION {built(T) : T \in DictClasses}
        size(x) == IF x.k = "Dictionary" THEN DictEncodeSize(x) ELSE encode_size(x)
    IN  /\ pc = "new"
        /\ cls = None
        /\ self \in values
        /\ \E offset \in 0..MaxOffset, room \in {-1, 0, 1} :
              /\ offset + size(self) + room >= 0
              /\ buffer = Filler(offset + size(self) + room)
              /\ args = [offset |-> offset, before |-> Filler(offset + size(self) + room)]
        /\ result = None
        /\ BYTES_DECODE_CACHE = <<>>

\* self.encode_into(buffer, offset)
DoEncodeInto ==
    /\ pc = "new"
    /\ LET r == IF self.k = "Dictionary" THEN DictEncodeInto(self, buffer, args.offset)
                ELSE encode_into(self, buffer, args.offset)
       IN  /\ result' = r
           /\ buffer' = r.buf
           /\ self' = IF self.k = "Dictionary" THEN r.self ELSE self
    /\ pc' = "done"
    /\ UNCHANGED <<BYTES_DECODE_CACHE, cls, args>>

SpecEncodeInto == InitEncodeInto /\ [][DoEncodeInto]_vars

(***************************************************************************)
(* C17  Short destination: for a fixed-width Int, a Uint, a Bytes, a       *)
(* ByteArray, a Bits or a String, encode_into(buffer, offset) called when  *)
(* fewer than encode_size() octets remain from offset fails with an error  *)
(* and neither writes a part of the value nor changes the length of the    *)
(* buffer.                                                                 *)
(***************************************************************************)
C17_ShortDestination ==
    (/\ pc = "done" /\ self.k # "Dictionary"
     /\ Len(args.before) - args.offset < encode_size(self))
    => (~result.ok /\ buffer = args.before)

(***************************************************************************)
(* C18  encode_into frame: for a value v of Int, Uint, ByteArray, Bits,    *)
(* String or Dictionary, an offset o and a buffer B of at least            *)
(* o + encode_size(v) octets, encode_into(B, o) returns encode_size(v);    *)
(* afterwards B[o .. o + encode_size(v)) equals encode(v), and the octets  *)
(* of B outside that range and the length of B are unchanged.              *)
(***************************************************************************)
C18_Size == IF self.k = "Dictionary" THEN DictEncodeSize(self) ELSE encode_size(self)

C18_E == IF self.k = "Dictionary" THEN DictEncode(self).buf ELSE encode(self).buf

InitForeign ==
    LET octets == {0, 1, 2, 5, 127, 128, 129, 192, 255}
        payloads == UNION {[1..n -> octets] : n \in 0..MaxForeign}
    IN  /\ pc = "wire"
        /\ cls \in {Uint, U8, U16, I16, ByteArrayClass, BitsVar("msb"), BitsVar("lsb"),
                    BitsFixed(3, "msb"), BitsFixed(9, "lsb")}
        /\ self = None
        /\ args \in {[declared |-> <<>>, prefix |-> <<>>, whole |-> TRUE,
                      payload |-> q, offset |-> o] : q \in payloads, o \in 0..MaxOffset}
        /\ buffer = Filler(args.offset) \o args.payload
        /\ result = None
        /\ BYTES_DECODE_CACHE = <<>>

SpecForeign == InitForeign /\ [][NextWire]_vars

(***************************************************************************)
(* C21  Canonical decode: when a decoder (Uint, fixed-width Int,           *)
(* ByteArray, Bits) accepts the octets at args.offset, the encoding of the *)
(* value it returns is a prefix of those octets; a varint longer than the  *)
(* shortest form of its number, or a last Bits octet with a padding bit    *)
(* set, is not accepted.                                                   *)
(***************************************************************************)
C21_CanonicalDecode ==
    pc = "encoded" =>
        /\ Len(buffer) <= Len(args.payload)
        /\ buffer = SubSeq(args.payload, 1, Len(buffer))

(***************************************************************************)
(* The arithmetic scenario: two values of one fixed-width integer type are *)
(* the operands of one of the seven operators of Int.                      *)
(***************************************************************************)
\* The operands are small numbers and 2 ** e and 2 ** e - 1 for e = 7 and for the width
\* of the type and one less, of either sign, that the type holds.
InitArith ==
    LET magnitudes(T) ==
            {NatFromInt(n) : n \in {0, 1, 2, 3, 100}}
            \cup {NatSub(Pow2(e), NatFromInt(d)) :
                     e \in {7, 8 * T.byte_size - 1, 8 * T.byte_size}, d \in 0..1}
        values(T) ==
            {IntObj(T, v) : v \in {w \in {PyInt(sg, m) : sg \in BOOLEAN, m \in magnitudes(T)} :
                                      IntInRange(T, w)}}
    IN  /\ pc = "operands"
        /\ cls \in {U8, I8, U16, I16, U64, I64}
        /\ self \in values(cls)
        /\ args \in {[other |-> o, op |-> op] :
                        o \in values(cls), op \in {"+", "-", "*", "//", "&", "|", "^"}}
        /\ buffer = <<>>
        /\ result = None
        /\ BYTES_DECODE_CACHE = <<>>

\* self op other
IntDoOp ==
    /\ pc = "operands"
    /\ result' = wrap_op(self, args.other, args.op)
    /\ pc' = "computed"
    /\ UNCHANGED <<BYTES_DECODE_CACHE, cls, self, args, buffer>>

SpecArith == InitArith /\ [][IntDoOp]_vars

(***************************************************************************)
(* C23  Typed arithmetic: for a and b of one fixed-width integer type T    *)
(* and an operator among +, -, *, //, &, |, ^ whose result is defined, the *)
(* outcome is a value of T that holds the mathematical result when that    *)
(* lies in the range of T, and a range error otherwise; no result is       *)
(* reduced modulo 2 ** N.  Operands below 2 ** 15 in magnitude are         *)
(* compared with the arithmetic of the integers, all operands with the     *)
(* range of T and, for + and -, with the inverse operation.                *)
(***************************************************************************)
C23_ToInt(x) == IF x.neg THEN 0 - NatToInt(x.mag) ELSE NatToInt(x.mag)

\* the digit of weight 2 ** i of the two's complement of n
C23_Bit(n, i) == ((n + 2 ^ 17) \div (2 ^ i)) % 2

\* a op b on the digits of weight 2 ** i and above, of 17 digits and the sign
RECURSIVE C23_Bitwise(_, _, _, _)
C23_Bitwise(op, a, b, i) ==
    LET on(c, d) == CASE op = "&" -> c * d
                      [] op = "|" -> c + d - c * d
                      [] op = "^" -> (c + d) % 2
    IN  IF i = 17 THEN 0 - on(IF a < 0 THEN 1 ELSE 0, IF b < 0 THEN 1 ELSE 0) * 2 ^ 17
        ELSE on(C23_Bit(a, i), C23_Bit(b, i)) * 2 ^ i + C23_Bitwise(op, a, b, i + 1)

\* floor(a / b) for b # 0
C23_Floor(a, b) ==
    LET n == IF b < 0 THEN 0 - a ELSE a
        d == IF b < 0 THEN 0 - b ELSE b
    IN  IF n >= 0 THEN n \div d ELSE 0 - ((0 - n + d - 1) \div d)

C23_Expected(op, a, b) ==
    CASE op = "+" -> a + b
      [] op = "-" -> a - b
      [] op = "*" -> a * b
      [] op = "//" -> C23_Floor(a, b)
      [] OTHER -> C23_Bitwise(op, a, b, 0)

\* the range of T among the numbers below 2 ** 31 in magnitude
C23_InRange(T, e) ==
    IF T.byte_size = 8 THEN T.signed \/ e >= 0
    ELSE IF T.signed THEN 0 - 2 ^ (8 * T.byte_size - 1) <= e /\ e < 2 ^ (8 * T.byte_size - 1)
    ELSE 0 <= e /\ e < 2 ^ (8 * T.byte_size)

C23_Defined == pc = "computed" /\ (args.op = "//" => args.other.v.mag # <<>>)

C23_TypedArithmetic ==
    C23_Defined =>
        /\ result.ok => /\ result.val = IntObj(cls, result.val.v)
                        /\ IntInRange(cls, result.val.v)
        /\ ~result.ok => result.err = "ValueError: out of range"
        /\ Len(self.v.mag) <= 15 /\ Len(args.other.v.mag) <= 15 =>
               LET e == C23_Expected(args.op, C23_ToInt(self.v), C23_ToInt(args.other.v))
               IN  /\ result.ok <=> C23_InRange(cls, e)
                   /\ result.ok => result.val.v = PyInt(e < 0, NatFromInt(IF e < 0 THEN 0 - e ELSE e))
        /\ args.op = "+" =>
               /\ result.ok => PySub(result.val.v, args.other.v) = self.v
               /\ ~cls.signed =>
                      (result.ok <=> NatLE(args.other.v.mag,
                                           NatSub(NatSub(cls.bound, Pow2(0)), self.v.mag)))
        /\ args.op = "-" =>
               /\ result.ok => PyAdd(result.val.v, args.other.v) = self.v
               /\ ~cls.signed => (result.ok <=> NatLE(args.other.v.mag, self.v.mag))

\* U8(255) + U8(1) is a range error and not U8(0)
C23_Witness ==
    /\ pc = "computed" /\ cls = U8 /\ args.op = "+"
    /\ self.v = PyNat(NatFromInt(255)) /\ args.other.v = PyNat(NatFromInt(1))
    /\ result = Raise("ValueError: out of range", <<>>)

InitRecordJson ==
    LET texts == {"first_name", "name"}
        numbers == {"age", "id"}
        values == {None, JsonStr(<<65, 108>>), JsonInt(5), JsonInt(300)}
        objects ==
            {d \in UNION {[K -> values] : K \in SUBSET (texts \cup numbers \cup {"nick"})} :
                \A key \in DOMAIN d :
                    /\ key \in texts => d[key].k \in {"None", "str"}
                    /\ key \in numbers => d[key].k \in {"None", "int"}
                    /\ key = "nick" => d[key] = JsonInt(5)}
    IN  /\ pc = "json"
        /\ cls \in {RecordClass(<<FieldMeta("name", StringClass, "first_name", None),
                                  FieldMeta("age", U8, "age", JsonInt(0))>>),
                    RecordClass(<<FieldMeta("id", U16, "id", None),
                                  FieldMeta("name", StringClass, "first_name",
                                            JsonStr(<<120>>))>>),
                    RecordClass(<<FieldMeta("id", U16, "id", None),
                                  FieldMeta("age", U8, "age", None)>>)}
        /\ self = None
        /\ args \in {[data |-> d] : d \in objects}
        /\ buffer = <<>>
        /\ result = None
        /\ BYTES_DECODE_CACHE = <<>>

\* cls.from_json(data)
RecordDoFromJson ==
    /\ pc = "json"
    /\ result' = RecordFromJson(cls, args.data)
    /\ pc' = "parsed"
    /\ UNCHANGED <<BYTES_DECODE_CACHE, cls, self, args, buffer>>

SpecRecordJson == InitRecordJson /\ [][RecordDoFromJson]_vars

(***************************************************************************)
(* C25  Record JSON decoding: from_json gives the same outcome as on the   *)
(* object without the keys that name no field; a field whose key is absent *)
(* takes its declared default, and when it declares none from_json fails   *)
(* and returns no record, whatever the type of the field.                  *)
(***************************************************************************)
C25_FromJson ==
    pc = "parsed" =>
        LET absent == {i \in 1..Len(cls.fields) : cls.fields[i].key \notin DOMAIN args.data}
            named == {cls.fields[i].key : i \in 1..Len(cls.fields)} \cap DOMAIN args.data
        IN  /\ result = RecordFromJson(cls, [key \in named |-> args.data[key]])
            /\ result.ok => \A i \in absent : result.val.values[i] = cls.fields[i].default
            /\ (\E i \in absent : cls.fields[i].default = None) => ~result.ok

(***************************************************************************)
(* C26  Fixed Bytes[L] length: a value of Bytes[L], L >= 1, constructed or *)
(* decoded, holds exactly L octets; its encoding is those L octets without *)
(* a length prefix and encode_size() is L, the length of the encoding;     *)
(* decode_from fails when fewer than L octets remain at the offset.        *)
(***************************************************************************)
C26_FixedLength ==
    /\ pc \in {"new", "encoded", "failed"} => Len(self.data) = cls.length
    /\ pc # "failed"
    /\ pc = "encoded" =>
           /\ buffer = self.data
           /\ BytesEncodeSize(self) = cls.length
           /\ Len(buffer) = cls.length
    /\ (pc = "decoded" /\ cls.length >= 1) =>
           /\ result.ok => Len(result.val.data) = cls.length /\ result.n = cls.length
           /\ Len(buffer) - args.offset < cls.length => ~result.ok

(***************************************************************************)
(* The full cache scenario: the process of the Bytes scenario starts after *)
(* Bytes[2].decode_from has returned the values of 0, 998, 999 or 1000      *)
(* buffers of two octets, one call each, no two of them alike: entry(i) is *)
(* what the i-th of these calls stored.                                    *)
(***************************************************************************)
InitCache ==
    LET entry(i) ==
            LET T == BytesClass(2)
                buf == <<i % 256, i \div 256>>
            IN  [key |-> <<T, T.length, buf, 0>>, value |-> Decoded(BytesObj(T, buf), 2)]
    IN  /\ pc = "idle"
        /\ cls = None
        /\ self = None
        /\ args = [calls |-> 0]
        /\ buffer = <<>>
        /\ result = None
        /\ BYTES_DECODE_CACHE \in
               {[i \in 1..n |-> entry(i)] :
                   n \in {0, BYTES_CACHE_MAX_SIZE - 2, BYTES_CACHE_MAX_SIZE - 1,
                          BYTES_CACHE_MAX_SIZE}}

\* value, size = cls.decode_from(buffer): a buffer that one of the earlier calls was
\* given (the first, the last that a full cache drops, the first that it keeps), or
\* another one
CacheDoDecode ==
    /\ args.calls < MaxCalls
    /\ \E T \in {BytesClass(0), BytesClass(2)},
          buf \in {<<1, 0>>, <<BYTES_CACHE_MAX_SIZE \div 4, 0>>,
                   <<BYTES_CACHE_MAX_SIZE \div 4 + 1, 0>>,
                   <<2>>, <<2, 120, 121>>, <<2, 120, 122>>} :
          LET r == BytesDecodeFrom(T, BYTES_DECODE_CACHE, buf, 0)
          IN  /\ args' = [calls |-> args.calls + 1, offset |-> 0]
              /\ cls' = T
              /\ buffer' = buf
              /\ result' = r.result
              /\ BYTES_DECODE_CACHE' = r.cache
    /\ pc' = "decoded"
    /\ UNCHANGED self

NextCache == CacheDoDecode \/ BytesDoClear

SpecCache == InitCache /\ [][NextCache]_vars

(***************************************************************************)
(* C30  Bytes decode cache bound: the cache never holds more than 1000     *)
(* entries; a decode_from that returns a value for a key the cache does    *)
(* not hold adds one entry to a cache of fewer than 1000, and to a cache   *)
(* of 1000 after the 250 entries inserted first were removed, which leaves *)
(* 751; every other call leaves the cache alone or, for                    *)
(* clear_bytes_decode_cache, empty.                                        *)
(***************************************************************************)
C30_Held(cache, T, buf, offset) ==
    \E i \in 1..Len(cache) :
        cache[i].key = <<T, T.length, SubSeq(buf, offset + 1, Min(offset + 64, Len(buf))), offset>>

C30_Step ==
    /\ Len(BYTES_DECODE_CACHE) <= 1000
    /\ Len(BYTES_DECODE_CACHE') <= 1000
    /\ pc' \notin {"decoded", "cleared"} => BYTES_DECODE_CACHE' = BYTES_DECODE_CACHE
    /\ pc' = "cleared" => BYTES_DECODE_CACHE' = <<>>
    /\ pc' = "decoded" =>
           IF ~result'.ok \/ C30_Held(BYTES_DECODE_CACHE, cls', buffer', args'.offset)
           THEN BYTES_DECODE_CACHE' = BYTES_DECODE_CACHE
           ELSE IF Len(BYTES_DECODE_CACHE) = 1000
           THEN /\ Len(BYTES_DECODE_CACHE') = 751
                /\ SubSeq(BYTES_DECODE_CACHE', 1, 750) = SubSeq(BYTES_DECODE_CACHE, 251, 1000)
                /\ BYTES_DECODE_CACHE'[751].value = result'
           ELSE /\ Len(BYTES_DECODE_CACHE') = Len(BYTES_DECODE_CACHE) + 1
                /\ SubSeq(BYTES_DECODE_CACHE', 1, Len(BYTES_DECODE_CACHE)) = BYTES_DECODE_CACHE
                /\ BYTES_DECODE_CACHE'[Len(BYTES_DECODE_CACHE')].value = result'

C30_CacheBound == [][C30_Step]_vars

\* the first call on a cache of 1000 entries has stored its result as the 751st
C30_Witness ==
    /\ pc = "decoded" /\ args.calls = 1 /\ result.ok
    /\ Len(BYTES_DECODE_CACHE) = 751
    /\ BYTES_DECODE_CACHE[751].value = result

=============================================================================
